---------------------------- MODULE Spec2Model ----------------------------
(***************************************************************************)
(* A model of the simulation core of bitflip: the byte grid with its       *)
(* diff/patch codec (bytegrid.rs) and the game state with its movement,    *)
(* trigger and CPU rules (gameplay.rs).                                    *)
(*                                                                         *)
(* A ByteGrid is 65,536 bytes.  The model keeps a grid as the function     *)
(* from the addresses of its non-zero bytes to those bytes: every address  *)
(* outside the domain reads 0, as in a grid made by ByteGrid::new().  An   *)
(* address is the packed 16-bit value the code indexes a grid with         *)
(* (x = addr >> 8, y = addr & 0xff).                                       *)
(***************************************************************************)
EXTENDS Integers, Sequences, FiniteSets, TLC

VARIABLES
    \* ---- the diff/patch codec under test (bytegrid.rs) ----
    gstage,        \* position in the codec round trip
    before,        \* grid A
    after,         \* grid B
    the_diff,      \* before.diff(&after)
    serialized,    \* the_diff.serialize()
    deserialized,  \* ByteGridDiff::deserialize(&serialized)
    patched,       \* before.clone() patched with the_diff
    patched_de,    \* before.clone() patched with the deserialized diff
    self_source,   \* the grid g that is diffed against itself
    self_diff,     \* g.diff(&g)
    self_target,   \* the grid that self_diff is applied to
    self_patched,  \* self_target.clone() patched with self_diff
    \* ---- the step function under test (gameplay.rs, step) ----
    walk_p,        \* a position V2
    walk_mode,     \* the WrapingMode of the walk
    walk_n,        \* number of steps walked
    \* ---- the game (gameplay.rs, GamePlayState) ----
    game,          \* the GamePlayState, a record of its fields
    moves,         \* number of make_move calls so far
    fire_count,    \* per trigger (page, key): how often its effect was applied
    \* ---- the bit set under test (bytegrid.rs, Bits256) ----
    bits,          \* a Bits256
    bits_last,     \* the last operation on bits, and what get(idx) was before
    bits_n         \* number of operations on bits so far

grid_vars == <<gstage, before, after, the_diff, serialized, deserialized,
               patched, patched_de, self_source, self_diff, self_target,
               self_patched>>
walk_vars == <<walk_p, walk_mode, walk_n>>
game_vars == <<game, moves, fire_count>>
bits_vars == <<bits, bits_last, bits_n>>
vars == <<grid_vars, walk_vars, game_vars, bits_vars>>

(***************************************************************************)
(* Program constants.                                                      *)
(***************************************************************************)
N == 256
U16Max == 65535
FragmentMax == 256

Byte == 0..(N - 1)
Addr == 0..U16Max

Min2(a, b) == IF a <= b THEN a ELSE b

(***************************************************************************)
(* ByteGrid: Index<u16> and IndexMut<u16>.                                 *)
(***************************************************************************)
EmptyGrid == << >>

GridGet(g, a) == IF a \in DOMAIN g THEN g[a] ELSE 0

GridSet(g, a, v) ==
    IF v = 0
    THEN [b \in (DOMAIN g) \ {a} |-> g[b]]
    ELSE [b \in (DOMAIN g) \cup {a} |-> IF b = a THEN v ELSE g[b]]

\* PartialEq for Grid: equal at every address.
GridEq(g, h) == \A a \in (DOMAIN g) \cup (DOMAIN h) : GridGet(g, a) = GridGet(h, a)

(***************************************************************************)
(* Grid::diff.  The loop runs i over 0..=0xffff in increasing order; only  *)
(* an address where the two grids differ does anything.  DiffScan runs the *)
(* loop over lo..hi by halves, left half first, and skips a range that     *)
(* holds no differing address.                                             *)
(***************************************************************************)
\* the comparison reads the after-grid one address too high
DifferingOffByOne(b, a) ==
    {i \in (DOMAIN b) \cup {j - 1 : j \in (DOMAIN a) \ {0}} :
        GridGet(b, i) # GridGet(a, i + 1)}

Differing(b, a) ==
    {i \in (DOMAIN b) \cup (DOMAIN a) : GridGet(b, i) # GridGet(a, i)}

\* the loop body without the gap fill: only the differing byte is pushed
DiffVisitNoFill(hunks, aft, i) ==
    IF hunks # << >>
       /\ i - (hunks[Len(hunks)].pos + Len(hunks[Len(hunks)].data)) <= 3
    THEN LET last == hunks[Len(hunks)]
         IN  [hunks EXCEPT ![Len(hunks)] =
                 [pos |-> last.pos, data |-> Append(last.data, GridGet(aft, i))]]
    ELSE Append(hunks, [pos |-> i, data |-> <<GridGet(aft, i)>>])

\* a loop body that merges over at most two unchanged bytes
DiffVisitNarrowGap(hunks, aft, i) ==
    IF hunks # << >>
       /\ i - (hunks[Len(hunks)].pos + Len(hunks[Len(hunks)].data)) <= 2
    THEN LET last == hunks[Len(hunks)]
             end == last.pos + Len(last.data)
             fill == [k \in 1..(i - end + 1) |-> GridGet(aft, end + k - 1)]
         IN  [hunks EXCEPT ![Len(hunks)] = [pos |-> last.pos, data |-> last.data \o fill]]
    ELSE Append(hunks, [pos |-> i, data |-> <<GridGet(aft, i)>>])

\* a loop body that also merges over four unchanged bytes
DiffVisitWiderGap(hunks, aft, i) ==
    IF hunks # << >>
       /\ i - (hunks[Len(hunks)].pos + Len(hunks[Len(hunks)].data)) <= 4
    THEN LET last == hunks[Len(hunks)]
             end == last.pos + Len(last.data)
             fill == [k \in 1..(i - end + 1) |-> GridGet(aft, end + k - 1)]
         IN  [hunks EXCEPT ![Len(hunks)] = [pos |-> last.pos, data |-> last.data \o fill]]
    ELSE Append(hunks, [pos |-> i, data |-> <<GridGet(aft, i)>>])

\* the body of the loop for one differing address i
DiffVisit(hunks, aft, i) ==
    IF hunks # << >>
       /\ i - (hunks[Len(hunks)].pos + Len(hunks[Len(hunks)].data)) <= 3
    THEN LET last == hunks[Len(hunks)]
             end == last.pos + Len(last.data)
             fill == [k \in 1..(i - end + 1) |-> GridGet(aft, end + k - 1)]
         IN  [hunks EXCEPT ![Len(hunks)] = [pos |-> last.pos, data |-> last.data \o fill]]
    ELSE Append(hunks, [pos |-> i, data |-> <<GridGet(aft, i)>>])

RECURSIVE DiffScan(_, _, _, _, _)
DiffScan(hunks, aft, todo, lo, hi) ==
    IF todo = {} THEN hunks
    ELSE IF lo = hi THEN DiffVisit(hunks, aft, lo)
    ELSE LET mid == (lo + hi) \div 2
             left == DiffScan(hunks, aft, {i \in todo : i <= mid}, lo, mid)
         IN  \* the test makes TLC evaluate the left half first
             IF Len(left) >= 0
             THEN DiffScan(left, aft, {i \in todo : i > mid}, mid + 1, hi)
             ELSE left

diff(b, a) == DiffScan(<< >>, a, Differing(b, a), 0, U16Max)

(***************************************************************************)
(* Grid::patch.  A hunk is cut to the bytes that fit below address 65536.  *)
(***************************************************************************)
\* a patch that lets the address wrap around instead of cutting the hunk
PatchHunkWrapping(g, h) ==
    LET touched == {(h.pos + idx) % (U16Max + 1) : idx \in 0..(Len(h.data) - 1)}
        last(a) == CHOOSE idx \in 0..(Len(h.data) - 1) :
                       /\ (h.pos + idx) % (U16Max + 1) = a
                       /\ \A j \in 0..(Len(h.data) - 1) :
                             (h.pos + j) % (U16Max + 1) = a => j <= idx
        val(a) == IF a \in touched THEN h.data[last(a) + 1] ELSE g[a]
        dom == {a \in (DOMAIN g) \cup touched : val(a) # 0}
    IN  [a \in dom |-> val(a)]

PatchHunk(g, h) ==
    LET l == Min2(Len(h.data), U16Max + 1 - h.pos)
        touched == {h.pos + idx : idx \in 0..(l - 1)}
        val(a) == IF a \in touched THEN h.data[a - h.pos + 1] ELSE g[a]
        dom == {a \in (DOMAIN g) \cup touched : val(a) # 0}
    IN  [a \in dom |-> val(a)]

\* the hunks lo..hi of a diff applied in order (by halves, left half first)
RECURSIVE PatchRange(_, _, _, _)
PatchRange(g, hunks, lo, hi) ==
    IF lo > hi THEN g
    ELSE IF lo = hi THEN PatchHunk(g, hunks[lo])
    ELSE LET mid == (lo + hi) \div 2
             left == PatchRange(g, hunks, lo, mid)
         IN  \* the test makes TLC evaluate the left half first
             IF DOMAIN left # {-1}
             THEN PatchRange(left, hunks, mid + 1, hi)
             ELSE left

patch(g, d) == PatchRange(g, d, 1, Len(d))

(***************************************************************************)
(* ByteGridDiff::serialize and ByteGridDiff::deserialize.                  *)
(***************************************************************************)
\* data.chunks(size): the fragments of one hunk, each with its start address
RECURSIVE Fragments(_, _, _)
Fragments(current_pos, data, size) ==
    IF data = << >> THEN << >>
    ELSE LET n == Min2(Len(data), size)
         IN  <<[pos |-> current_pos, data |-> SubSeq(data, 1, n)]>>
             \o Fragments(current_pos + n, SubSeq(data, n + 1, Len(data)), size)

FragmentBytes(f) ==
    <<f.pos % 256, (f.pos \div 256) % 256, (Len(f.data) - 1) % 256>> \o f.data

RECURSIVE ConcatFragments(_, _)
ConcatFragments(fs, k) ==
    IF k > Len(fs) THEN << >>
    ELSE FragmentBytes(fs[k]) \o ConcatFragments(fs, k + 1)

\* the bytes of the hunks lo..hi, in order (by halves)
RECURSIVE SerializeRange(_, _, _, _)
SerializeRange(hunks, lo, hi, size) ==
    IF lo > hi THEN << >>
    ELSE IF lo = hi
    THEN ConcatFragments(Fragments(hunks[lo].pos, hunks[lo].data, size), 1)
    ELSE LET mid == (lo + hi) \div 2
         IN  SerializeRange(hunks, lo, mid, size)
             \o SerializeRange(hunks, mid + 1, hi, size)

\* a serializer that does not split a hunk: the length byte wraps
serialize_unsplit(d) == SerializeRange(d, 1, Len(d), U16Max + 1)

serialize(d) == SerializeRange(d, 1, Len(d), FragmentMax)

\* the while loop of deserialize; pos counts the bytes consumed
\* a loop that accepts whatever is left when no record header fits
RECURSIVE DeserializeLoopNoTail(_, _, _)
DeserializeLoopNoTail(data, pos, hunks) ==
    IF Len(data) - pos >= 4
    THEN LET grid_pos == data[pos + 1] + data[pos + 2] * 256
             len == data[pos + 3] + 1
             p == pos + 3
         IN  IF p + len <= Len(data)
             THEN DeserializeLoopNoTail(data, p + len,
                      Append(hunks, [pos |-> grid_pos,
                                     data |-> SubSeq(data, p + 1, p + len)]))
             ELSE [ok |-> FALSE, hunks |-> << >>]
    ELSE [ok |-> TRUE, hunks |-> hunks]

RECURSIVE DeserializeLoop(_, _, _)
DeserializeLoop(data, pos, hunks) ==
    IF Len(data) - pos >= 4
    THEN LET grid_pos == data[pos + 1] + data[pos + 2] * 256
             len == data[pos + 3] + 1
             p == pos + 3
         IN  IF p + len <= Len(data)
             THEN DeserializeLoop(data, p + len,
                      Append(hunks, [pos |-> grid_pos,
                                     data |-> SubSeq(data, p + 1, p + len)]))
             ELSE [ok |-> FALSE, hunks |-> << >>]
    ELSE IF Len(data) - pos > 0
         THEN [ok |-> FALSE, hunks |-> << >>]
         ELSE [ok |-> TRUE, hunks |-> hunks]

deserialize(data) == DeserializeLoop(data, 0, << >>)

(***************************************************************************)
(* The grids the codec is run on.  B is A with some bytes changed: any     *)
(* subset of EditAddrs (their gaps straddle the merge threshold of diff    *)
(* and the two ends of the address space), and possibly a run of changed   *)
(* bytes at a fixed stride, placed low or ending at the last address: a    *)
(* dense run of MaxRun bytes at stride 1..4 (stride 4 gives one hunk       *)
(* longer than FragmentMax) or a sparse run of MaxSparse bytes at stride 5 *)
(* (one hunk per byte).                                                    *)
(***************************************************************************)
MaxRun == 66
MaxSparse == 6

EditAddrs == {0, 1, 5, 9, 65534, 65535}

PatternGrid ==
    (0 :> 255) @@ (3 :> 7) @@ (6 :> 1) @@ (7 :> 9) @@ (9 :> 1) @@ (65535 :> 255)

BaseGrids == {EmptyGrid, PatternGrid}

RunShapes ==
    {[stride |-> s, count |-> MaxRun] : s \in 1..4}
    \cup {[stride |-> 5, count |-> MaxSparse]}

Runs ==
    {[start |-> 0, stride |-> 1, count |-> 0]}
    \cup {[start |-> 2, stride |-> r.stride, count |-> r.count] : r \in RunShapes}
    \cup {[start |-> U16Max - (r.count - 1) * r.stride,
           stride |-> r.stride, count |-> r.count] : r \in RunShapes}

RunAddrs(r) == {r.start + k * r.stride : k \in 0..(r.count - 1)}

\* the grid a with delta added (mod 256) to the byte at every address of S
Edited(a, S, delta) ==
    LET val(x) == IF x \in S THEN (GridGet(a, x) + delta) % 256 ELSE GridGet(a, x)
        dom == {x \in (DOMAIN a) \cup S : val(x) # 0}
    IN  [x \in dom |-> val(x)]

GridInit ==
    /\ gstage = "start"
    /\ before \in BaseGrids
    /\ \E S \in SUBSET EditAddrs, r \in Runs, delta \in {1, 255} :
           after = Edited(before, S \cup RunAddrs(r), delta)
    /\ the_diff = << >>
    /\ serialized = << >>
    /\ deserialized = [ok |-> FALSE, hunks |-> << >>]
    /\ patched = EmptyGrid
    /\ patched_de = EmptyGrid
    /\ self_source = EmptyGrid
    /\ self_diff = << >>
    /\ self_target = EmptyGrid
    /\ self_patched = EmptyGrid

\* let patch = a.diff(&b);
DoDiff ==
    /\ gstage = "start"
    /\ the_diff' = diff(before, after)
    /\ gstage' = "diffed"
    /\ UNCHANGED <<before, after, serialized, deserialized, patched, patched_de,
                   self_source, self_diff, self_target, self_patched>>
    /\ UNCHANGED <<walk_vars, game_vars, bits_vars>>

\* let mut c = a.clone(); c.patch(&patch);
DoPatch ==
    /\ gstage = "diffed"
    /\ patched' = patch(before, the_diff)
    /\ gstage' = "patched"
    /\ UNCHANGED <<before, after, the_diff, serialized, deserialized, patched_de,
                   self_source, self_diff, self_target, self_patched>>
    /\ UNCHANGED <<walk_vars, game_vars, bits_vars>>

\* let serialized = patch.serialize();
DoSerialize ==
    /\ gstage = "patched"
    /\ serialized' = serialize(the_diff)
    /\ gstage' = "serialized"
    /\ UNCHANGED <<before, after, the_diff, deserialized, patched, patched_de,
                   self_source, self_diff, self_target, self_patched>>
    /\ UNCHANGED <<walk_vars, game_vars, bits_vars>>

\* let deserialized = ByteGridDiff::deserialize(&serialized);
DoDeserialize ==
    /\ gstage = "serialized"
    /\ deserialized' = deserialize(serialized)
    /\ gstage' = "deserialized"
    /\ UNCHANGED <<before, after, the_diff, serialized, patched, patched_de,
                   self_source, self_diff, self_target, self_patched>>
    /\ UNCHANGED <<walk_vars, game_vars, bits_vars>>

\* let mut c = a.clone(); c.patch(&deserialized.unwrap());
DoPatchDeserialized ==
    /\ gstage = "deserialized"
    /\ deserialized.ok
    /\ patched_de' = patch(before, deserialized.hunks)
    /\ gstage' = "roundtrip"
    /\ UNCHANGED <<before, after, the_diff, serialized, deserialized, patched,
                   self_source, self_diff, self_target, self_patched>>
    /\ UNCHANGED <<walk_vars, game_vars, bits_vars>>

\* let diff = g.diff(&g); let mut other = t.clone(); other.patch(&diff);
DoSelfDiff ==
    /\ gstage = "start"
    /\ \E g \in {before, after}, t \in {before, after} :
           /\ self_source' = g
           /\ self_diff' = diff(g, g)
           /\ self_target' = t
           /\ self_patched' = patch(t, diff(g, g))
    /\ gstage' = "self"
    /\ UNCHANGED <<before, after, the_diff, serialized, deserialized, patched,
                   patched_de>>
    /\ UNCHANGED <<walk_vars, game_vars, bits_vars>>

(***************************************************************************)
(* The decoder on its own: deserialize applied to byte sequences that no   *)
(* serialize call produced (cut records, left-over bytes, addresses at the *)
(* end of the grid), and patch applied to what it returns.                 *)
(***************************************************************************)
MaxRaw == 8

RawBytes == {0, 2, 255}

RawInputs == UNION {[1..n -> RawBytes] : n \in 0..MaxRaw}

BytesInit ==
    /\ gstage = "serialized"
    /\ before \in {EmptyGrid, PatternGrid}
    /\ serialized \in RawInputs
    /\ after = EmptyGrid
    /\ the_diff = << >>
    /\ deserialized = [ok |-> FALSE, hunks |-> << >>]
    /\ patched = EmptyGrid
    /\ patched_de = EmptyGrid
    /\ self_source = EmptyGrid
    /\ self_diff = << >>
    /\ self_target = EmptyGrid
    /\ self_patched = EmptyGrid

BytesNext ==
    \/ DoDeserialize
    \/ DoPatchDeserialized

GridNext ==
    \/ DoDiff
    \/ DoPatch
    \/ DoSerialize
    \/ DoDeserialize
    \/ DoPatchDeserialized
    \/ DoSelfDiff

(***************************************************************************)
(* gameplay.rs: positions, packed addresses, the step function.            *)
(***************************************************************************)
GRID_MAX == 255
PLAYER_VAL == 64
PLAYER_OFFSET == 6
DEFAULT_PAGE == 66

V2(x, y) == [x |-> x, y |-> y]

\* PlayerPos::Pos(V2) and PlayerPos::Register(usize)
Pos(p) == [kind |-> "Pos", x |-> p.x, y |-> p.y, r |-> 0]
Register(r) == [kind |-> "Register", x |-> 0, y |-> 0, r |-> r]
PosOf(player) == V2(player.x, player.y)

\* RegisterId
RegData == 0
RegPage == 1
RegCompare == 2

joinu8(x, y) == x * 256 + y
joinu16(p) == joinu8(p.x % 256, p.y % 256)
splitu16(a) == V2(a \div 256, a % 256)

MoveDirs == {"Up", "Left", "Down", "Right"}
WrapingModes == {"Block", "WrapLine", "WrapGrid"}

\* a step that wraps in Block mode too
step_always_wraps(p0, d, mode) ==
    LET dp == CASE d = "Up" -> V2(0, -1)
                [] d = "Left" -> V2(-1, 0)
                [] d = "Down" -> V2(0, 1)
                [] d = "Right" -> V2(1, 0)
        tp == V2(p0.x + dp.x, p0.y + dp.y)
    IN  V2((tp.x + 256) % 256, (tp.y + 256) % 256)

\* a WrapGrid step that wraps like WrapLine
step_grid_as_line(p0, d, mode) ==
    LET dp == CASE d = "Up" -> V2(0, -1)
                [] d = "Left" -> V2(-1, 0)
                [] d = "Down" -> V2(0, 1)
                [] d = "Right" -> V2(1, 0)
        tp == V2(p0.x + dp.x, p0.y + dp.y)
    IN  IF tp.x >= 0 /\ tp.x <= GRID_MAX /\ tp.y >= 0 /\ tp.y <= GRID_MAX
        THEN tp
        ELSE IF mode = "Block" THEN p0
             ELSE V2((tp.x + 256) % 256, (tp.y + 256) % 256)

\* a WrapGrid step over an address whose high byte is the row
step_row_major(p0, d, mode) ==
    IF mode = "WrapGrid"
    THEN LET joined == (p0.y % 256) * 256 + (p0.x % 256)
             add == CASE d = "Up" -> 65280
                      [] d = "Left" -> 65535
                      [] d = "Down" -> 256
                      [] d = "Right" -> 1
             a == (joined + add) % 65536
         IN  V2(a % 256, a \div 256)
    ELSE step_grid_as_line(p0, d, mode)

\* a step that leaves the grid at its border
step_off_grid(p0, d, mode) ==
    LET dp == CASE d = "Up" -> V2(0, -1)
                [] d = "Left" -> V2(-1, 0)
                [] d = "Down" -> V2(0, 1)
                [] d = "Right" -> V2(1, 0)
    IN  V2(p0.x + dp.x, p0.y + dp.y)

step(p0, d, mode) ==
    IF mode = "WrapGrid"
    THEN LET joined == joinu8(p0.x % 256, p0.y % 256)
             add == CASE d = "Up" -> 65535
                      [] d = "Left" -> 65280
                      [] d = "Down" -> 1
                      [] d = "Right" -> 256
         IN  splitu16((joined + add) % 65536)
    ELSE LET dp == CASE d = "Up" -> V2(0, -1)
                     [] d = "Left" -> V2(-1, 0)
                     [] d = "Down" -> V2(0, 1)
                     [] d = "Right" -> V2(1, 0)
             tp == V2(p0.x + dp.x, p0.y + dp.y)
         IN  IF tp.x >= 0 /\ tp.x <= GRID_MAX /\ tp.y >= 0 /\ tp.y <= GRID_MAX
             THEN tp
             ELSE IF mode = "Block" THEN p0
                  ELSE V2((tp.x + 256) % 256, (tp.y + 256) % 256)

(***************************************************************************)
(* The step function on its own: a walk over the grid from the positions   *)
(* the tests use (corners, edges, interior), in each wrap mode.            *)
(***************************************************************************)
MaxWalk == 4

WalkStarts ==
    {V2(0, 0), V2(255, 255), V2(0, 255), V2(255, 0), V2(5, 0), V2(5, 255),
     V2(0, 7), V2(255, 7), V2(1, 1), V2(10, 5)}

WalkInit ==
    /\ walk_p \in WalkStarts
    /\ walk_mode \in WrapingModes
    /\ walk_n = 0

Walk(d) ==
    /\ walk_n < MaxWalk
    /\ walk_p' = step(walk_p, d, walk_mode)
    /\ walk_n' = walk_n + 1
    /\ UNCHANGED <<walk_mode, grid_vars, game_vars, bits_vars>>

WalkNext == \E d \in MoveDirs : Walk(d)

(***************************************************************************)
(* Bit operations on bytes, for a mask that is a single bit.               *)
(***************************************************************************)
HasBit(v, mask) == (v \div mask) % 2 = 1
OrBit(v, mask) == IF HasBit(v, mask) THEN v ELSE v + mask
AndNotBit(v, mask) == IF HasBit(v, mask) THEN v - mask ELSE v

(***************************************************************************)
(* bytegrid.rs: Bits256, an array of WORD_COUNT words of 8 bits.           *)
(***************************************************************************)
BITS_IN_BYTE == 8
WORD_COUNT == 32

Bits256_new == [w \in 0..(WORD_COUNT - 1) |-> 0]

\* a set that can only turn bits on
Bits256_set_only(b, idx, value) ==
    LET byte == idx \div BITS_IN_BYTE
        bit == 2 ^ (idx % BITS_IN_BYTE)
    IN  [b EXCEPT ![byte] = OrBit(@, bit)]

Bits256_set(b, idx, value) ==
    LET byte == idx \div BITS_IN_BYTE
        bit == 2 ^ (idx % BITS_IN_BYTE)
    IN  [b EXCEPT ![byte] = IF value THEN OrBit(@, bit) ELSE AndNotBit(@, bit)]

Bits256_get(b, idx) ==
    (b[idx \div BITS_IN_BYTE] \div (2 ^ (idx % BITS_IN_BYTE))) % 2 = 1

Bits256_clear(b) == [w \in DOMAIN b |-> 0]

(***************************************************************************)
(* gameplay.rs: triggers, pages, rules, the game state.                    *)
(* A HashMap is a function; MapPut is HashMap::insert.                     *)
(***************************************************************************)
MapPut(m, k, v) == [x \in (DOMAIN m) \cup {k} |-> IF x = k THEN v ELSE m[x]]

\* TriggerKind
SetPC(a) == [kind |-> "SetPC", pc |-> a, text |-> ""]
EndOfLevel == [kind |-> "EndOfLevel", pc |-> 0, text |-> ""]
Message(m) == [kind |-> "Message", pc |-> 0, text |-> m]

Trigger(p, e, once) == [pos |-> p, effect |-> e, one_time |-> once, triggered |-> FALSE]

\* every trigger fires whenever it is visited
is_active_always(t) == TRUE

\* every trigger fires once only
is_active_once(t) == ~t.triggered

\* Trigger::is_active
is_active(t) == ~t.triggered \/ ~t.one_time

PageState_new == [memory |-> EmptyGrid, triggers |-> << >>]

PageState_from_grid_raw(grid) == [memory |-> grid, triggers |-> << >>]

\* the while loop of PageState::from_grid over the trigger table
RECURSIVE ScanTriggerTable(_, _, _)
ScanTriggerTable(memory, trigger_offset, triggers) ==
    IF trigger_offset < 256
    THEN LET px == GridGet(memory, joinu8(0, trigger_offset))
             py == GridGet(memory, joinu8(1, trigger_offset))
             tx == GridGet(memory, joinu8(2, trigger_offset))
             ty == GridGet(memory, joinu8(3, trigger_offset))
         IN  IF px # 0 /\ py # 0
             THEN ScanTriggerTable(memory, trigger_offset + 1,
                      MapPut(triggers, joinu8(px, py),
                             Trigger(V2(px, py), SetPC(joinu8(tx, ty)), TRUE)))
             ELSE triggers
    ELSE triggers

PageState_from_grid(grid) ==
    [memory |-> grid, triggers |-> ScanTriggerTable(grid, 36, << >>)]

GameRules_new ==
    [wrap_mode |-> "Block", reset_registers_on_trigger |-> TRUE,
     page_instruction |-> TRUE, rotate_page |-> "Always"]

PageRotationRules == {"Always", "Never", "AfterPageInstruction"}

\* Instruction
Instr(op, arg) == [op |-> op, arg |-> arg]
InstrNone == Instr("None", 0)

(***************************************************************************)
(* What the last make_move did, recorded for the properties: the player    *)
(* and page after the movement phase, the trigger applied, the pc,         *)
(* registers and memories after the trigger phase, and the instruction     *)
(* step_cpu fetched.  It is no field of GamePlayState and no operation     *)
(* reads it.                                                               *)
(***************************************************************************)
NoTrace ==
    [action |-> "none", dir |-> "none",
     from_player |-> Pos(V2(0, 0)), from_page |-> 0,
     moved_player |-> Pos(V2(0, 0)), moved_page |-> 0,
     fired |-> -1, fired_page |-> -1,
     trig_pc |-> 0, trig_registers |-> << >>, trig_memory |-> << >>,
     trig_player |-> Pos(V2(0, 0)), trig_page |-> 0,
     stepped |-> FALSE, executed |-> 0, instr |-> InstrNone,
     fetch_pc |-> 0, cpu_page |-> 0]

\* GamePlayState::new; cpu[0] is kept as the two fields registers and pc
GamePlayState_new ==
    [player |-> Pos(V2(0, 0)),
     player_page |-> 0,
     player_offset |-> PLAYER_OFFSET,
     pages |-> << >>,
     registers |-> (RegData :> 0) @@ (RegPage :> 0) @@ (RegCompare :> 255),
     pc |-> 0,
     visited_pages |-> Bits256_new,
     game_rules |-> GameRules_new,
     null_page |-> PageState_new,
     page_instruction_executed |-> FALSE,
     end_of_level |-> FALSE,
     trace |-> NoTrace]

RegisterCount(st) == Cardinality(DOMAIN st.registers)

player_mask(st) == 2 ^ st.player_offset

\* the first PLAYER_VAL cell, rows from the top, each row from the left
get_start(grid) ==
    LET found == {a \in DOMAIN grid : grid[a] = PLAYER_VAL}
        order(a) == (a % 256) * 256 + (a \div 256)
    IN  IF found = {} THEN V2(0, 0)
        ELSE splitu16(CHOOSE a \in found : \A b \in found : order(a) <= order(b))

set_initial_page(st, page) ==
    [st EXCEPT !.player_page = page,
               !.registers[RegPage] = page,
               !.visited_pages = Bits256_set(Bits256_clear(@), page, TRUE)]

from_grid(grid) ==
    LET start == get_start(grid)
        page == PageState_from_grid(grid)
        cleared == [page EXCEPT !.memory = GridSet(@, joinu16(start), 0)]
    IN  set_initial_page(
            [GamePlayState_new EXCEPT !.player = Pos(start),
                                      !.pages = MapPut(@, DEFAULT_PAGE, cleared)],
            DEFAULT_PAGE)

\* a movement that does not test the target
accessible_always(st, p) == TRUE

accessible(st, p) == ~HasBit(p, player_mask(st))

current_page(st) ==
    IF st.player_page \in DOMAIN st.pages
    THEN st.pages[st.player_page]
    ELSE st.null_page

\* a lookup that falls back to the default page when there is one
page_or_default(st, page_id) ==
    IF page_id \in DOMAIN st.pages THEN st.pages[page_id]
    ELSE IF DEFAULT_PAGE \in DOMAIN st.pages THEN st.pages[DEFAULT_PAGE]
    ELSE st.null_page

\* self.pages.get(&page_id).unwrap_or(&self.null_page)
page_or_null(st, page_id) ==
    IF page_id \in DOMAIN st.pages THEN st.pages[page_id] ELSE st.null_page

\* an overlay that is applied to every cell
effective_value_everywhere(st, page, p) ==
    OrBit(GridGet(page.memory, joinu16(p)), player_mask(st))

\* an overlay that flips the player bit of the player's cell
effective_value_flips(st, page, p) ==
    LET v == GridGet(page.memory, joinu16(p))
        mask == player_mask(st)
    IN  IF st.player = Pos(p)
        THEN (IF HasBit(v, mask) THEN v - mask ELSE v + mask)
        ELSE v

effective_value(st, page, p) ==
    LET v == GridGet(page.memory, joinu16(p))
    IN  IF st.player = Pos(p) THEN OrBit(v, player_mask(st)) ELSE v

\* CPU::get_register_effective and CPU::get_register_effective_r
get_register_effective(registers, id, player_pos, mask) ==
    LET v == registers[id]
    IN  IF player_pos.kind = "Register" /\ player_pos.r = id
        THEN OrBit(v, mask)
        ELSE v

reset_registers(st) ==
    [st EXCEPT !.registers[RegData] = 0, !.registers[RegCompare] = 255]

change_player_page(st, page) ==
    [st EXCEPT !.player_page = page,
               !.visited_pages = Bits256_set(@, page, TRUE)]

change_cpu_page(st, page) ==
    change_player_page([st EXCEPT !.registers[RegPage] = page], page)

(***************************************************************************)
(* GamePlayState::apply_triggers                                           *)
(***************************************************************************)
\* a trigger whose SetPC resets the registers whatever the rule says
trigger_effect_always_resets(st, effect) ==
    CASE effect.kind = "SetPC" -> [reset_registers(st) EXCEPT !.pc = effect.pc]
      [] effect.kind = "EndOfLevel" -> [st EXCEPT !.end_of_level = TRUE]
      [] effect.kind = "Message" ->
            IF effect.text = "WIN" THEN [st EXCEPT !.end_of_level = TRUE] ELSE st

trigger_effect(st, effect) ==
    CASE effect.kind = "SetPC" ->
            [(IF st.game_rules.reset_registers_on_trigger
              THEN reset_registers(st) ELSE st) EXCEPT !.pc = effect.pc]
      [] effect.kind = "EndOfLevel" -> [st EXCEPT !.end_of_level = TRUE]
      [] effect.kind = "Message" ->
            IF effect.text = "WIN" THEN [st EXCEPT !.end_of_level = TRUE] ELSE st

apply_triggers(st) ==
    IF st.player.kind # "Pos" THEN st
    ELSE IF st.player_page \notin DOMAIN st.pages THEN st
    ELSE LET page == st.player_page
             key == joinu16(PosOf(st.player))
         IN  IF key \notin DOMAIN st.pages[page].triggers THEN st
             ELSE IF ~is_active(st.pages[page].triggers[key]) THEN st
             ELSE trigger_effect(
                      [st EXCEPT !.pages[page].triggers[key].triggered = TRUE,
                                 !.trace.fired = key,
                                 !.trace.fired_page = page],
                      st.pages[page].triggers[key].effect)

(***************************************************************************)
(* GamePlayState::rotate_page and GamePlayState::move_player.  move_player *)
(* returns true and rotate_page returns false on every path.               *)
(***************************************************************************)
\* a rotation to the next page id, visited or not
rotate_page_next_id(st) ==
    IF ~(st.game_rules.rotate_page = "Always"
         \/ (st.game_rules.rotate_page = "AfterPageInstruction"
             /\ st.page_instruction_executed))
    THEN st
    ELSE IF st.player.kind # "Pos" THEN st
    ELSE [st EXCEPT !.player_page = (st.player_page + 1) % 256]

\* a rotation that asks neither the rule nor where the player is
rotate_page_unguarded(st) ==
    LET hits == {i \in 1..255 :
                    Bits256_get(st.visited_pages, (st.player_page + i) % 256)}
    IN  IF hits = {} THEN st
        ELSE LET i == CHOOSE h \in hits : \A g \in hits : h <= g
             IN  [st EXCEPT !.player_page = (st.player_page + i) % 256]

rotate_page(st) ==
    IF ~(st.game_rules.rotate_page = "Always"
         \/ (st.game_rules.rotate_page = "AfterPageInstruction"
             /\ st.page_instruction_executed))
    THEN st
    ELSE IF st.player.kind # "Pos" THEN st
    ELSE LET hits == {i \in 1..255 :
                         Bits256_get(st.visited_pages, (st.player_page + i) % 256)}
         IN  IF hits = {} THEN st
             ELSE LET i == CHOOSE h \in hits : \A g \in hits : h <= g
                  IN  [st EXCEPT !.player_page = (st.player_page + i) % 256]

\* a rotation that counts as a step of the world
rotate_page_returns_true == TRUE

rotate_page_returns == FALSE

\* a register move that forgets to follow the Page register
move_player_keeps_page(st, dir) ==
    IF st.player.kind = "Pos"
    THEN LET target == step(PosOf(st.player), dir, st.game_rules.wrap_mode)
         IN  IF accessible(st, effective_value(st, current_page(st), target))
             THEN [st EXCEPT !.player = Pos(target)]
             ELSE st
    ELSE LET r == st.player.r
             target == CASE dir = "Up" /\ r > 0 -> r - 1
                         [] dir = "Down" /\ r + 1 < RegisterCount(st) -> r + 1
                         [] OTHER -> r
         IN  IF ~accessible(st, get_register_effective(st.registers, target,
                                                        st.player, player_mask(st)))
             THEN st
             ELSE [st EXCEPT !.player = Register(target)]

\* a move that writes the player bit into the cell it lands on
move_player_writes_bit(st, dir) ==
    IF st.player.kind = "Pos"
    THEN LET target == step(PosOf(st.player), dir, st.game_rules.wrap_mode)
         IN  IF accessible(st, effective_value(st, current_page(st), target))
             THEN IF st.player_page \in DOMAIN st.pages
                  THEN [st EXCEPT !.player = Pos(target),
                                  !.pages[st.player_page].memory =
                                      GridSet(@, joinu16(target),
                                              effective_value(
                                                  [st EXCEPT !.player = Pos(target)],
                                                  current_page(st), target))]
                  ELSE [st EXCEPT !.player = Pos(target)]
             ELSE st
    ELSE LET r == st.player.r
             target == CASE dir = "Up" /\ r > 0 -> r - 1
                         [] dir = "Down" /\ r + 1 < RegisterCount(st) -> r + 1
                         [] OTHER -> r
             mask == player_mask(st)
         IN  IF ~accessible(st, get_register_effective(st.registers, target,
                                                        st.player, mask))
             THEN st
             ELSE change_player_page(
                      [st EXCEPT !.player = Register(target)],
                      get_register_effective(st.registers, RegPage,
                                             Register(target), mask))

move_player(st, dir) ==
    IF st.player.kind = "Pos"
    THEN LET target == step(PosOf(st.player), dir, st.game_rules.wrap_mode)
         IN  IF accessible(st, effective_value(st, current_page(st), target))
             THEN [st EXCEPT !.player = Pos(target)]
             ELSE st
    ELSE LET r == st.player.r
             target == CASE dir = "Up" /\ r > 0 -> r - 1
                         [] dir = "Down" /\ r + 1 < RegisterCount(st) -> r + 1
                         [] OTHER -> r
             mask == player_mask(st)
         IN  IF ~accessible(st, get_register_effective(st.registers, target,
                                                        st.player, mask))
             THEN st
             ELSE change_player_page(
                      [st EXCEPT !.player = Register(target)],
                      get_register_effective(st.registers, RegPage,
                                             Register(target), mask))

move_player_returns == TRUE

(***************************************************************************)
(* GamePlayState::read_instruction                                         *)
(***************************************************************************)
\* a decoder whose operand columns wrap around to column 0
read_instruction_wrapping(st, pc, page_id) ==
    LET page == page_or_null(st, page_id)
        p == splitu16(pc)
        instr == effective_value(st, page, p)
        a0 == V2((p.x + 1) % 256, p.y)
        a1 == V2((p.x + 2) % 256, p.y)
        arg_u8 == effective_value(st, page, a0)
        arg_u16 == effective_value(st, page, a0) * 256 + effective_value(st, page, a1)
    IN  CASE instr = 106 -> Instr("Jump", arg_u16)
          [] instr = 115 -> Instr("Swap", arg_u16)
          [] instr = 99 -> Instr("Compare", arg_u8)
          [] instr = 101 -> Instr("JumpEqual", arg_u16)
          [] instr = 108 -> Instr("JumpLess", arg_u16)
          [] instr = 103 -> Instr("JumpGreater", arg_u16)
          [] instr = 97 -> Instr("Add", arg_u8)
          [] instr = 112 -> Instr("Page", arg_u8)
          [] OTHER -> InstrNone

read_instruction(st, pc, page_id) ==
    LET page == page_or_null(st, page_id)
        p == splitu16(pc)
        instr == effective_value(st, page, p)
        a0 == V2(p.x + 1, p.y)
        a1 == V2(p.x + 2, p.y)
        arg_u8 == IF a0.x < 256 THEN effective_value(st, page, a0) ELSE 0
        arg_u16 ==
            IF a0.x < 256
            THEN LET high == effective_value(st, page, a0)
                     low == IF a1.x < 256 THEN effective_value(st, page, a1) ELSE 0
                 IN  high * 256 + low
            ELSE 0
    IN  CASE instr = 106 -> Instr("Jump", arg_u16)
          [] instr = 115 -> Instr("Swap", arg_u16)
          [] instr = 99 -> Instr("Compare", arg_u8)
          [] instr = 101 -> Instr("JumpEqual", arg_u16)
          [] instr = 108 -> Instr("JumpLess", arg_u16)
          [] instr = 103 -> Instr("JumpGreater", arg_u16)
          [] instr = 97 -> Instr("Add", arg_u8)
          [] instr = 112 -> Instr("Page", arg_u8)
          [] OTHER -> InstrNone

(***************************************************************************)
(* GamePlayState::instruction_range: none for Option::None, else the rows  *)
(* top and bottom of Some((top, bottom)).                                  *)
(***************************************************************************)
\* a range that is not extended below the row of the pc
instruction_range_upwards(st, pc) ==
    LET pc_v == splitu16(pc)
        is_code(y) ==
            read_instruction(st, joinu16(V2(pc_v.x, y)), st.player_page) # InstrNone
        RECURSIVE up(_)
        up(top) == IF top > 0 /\ is_code(top - 1) THEN up(top - 1) ELSE top
    IN  IF ~is_code(pc_v.y)
        THEN [none |-> TRUE, top |-> 0, bottom |-> 0]
        ELSE [none |-> FALSE, top |-> up(pc_v.y), bottom |-> pc_v.y]

instruction_range(st, pc) ==
    LET pc_v == splitu16(pc)
        is_code(y) ==
            read_instruction(st, joinu16(V2(pc_v.x, y)), st.player_page) # InstrNone
        RECURSIVE up(_), down(_)
        up(top) == IF top > 0 /\ is_code(top - 1) THEN up(top - 1) ELSE top
        down(bottom) ==
            IF bottom < 255 /\ is_code(bottom + 1) THEN down(bottom + 1) ELSE bottom
    IN  IF ~is_code(pc_v.y)
        THEN [none |-> TRUE, top |-> 0, bottom |-> 0]
        ELSE [none |-> FALSE, top |-> up(pc_v.y), bottom |-> down(pc_v.y)]

(***************************************************************************)
(* GamePlayState::step_cpu.  s is the state with pc already advanced; st   *)
(* is the state step_cpu was called in.                                    *)
(***************************************************************************)
\* a swap that stores the effective Data value (with the player bit)
exec_swap_effective(st, s, page_id, pos) ==
    LET v == get_register_effective(st.registers, RegData, st.player, player_mask(st))
    IN  IF page_id \in DOMAIN st.pages
        THEN LET s2 == [s EXCEPT
                           !.registers[RegData] =
                               GridGet(st.pages[page_id].memory, pos),
                           !.pages[page_id].memory = GridSet(@, pos, v)]
             IN  IF st.player_page = page_id /\ st.player = Pos(splitu16(pos))
                 THEN [s2 EXCEPT !.player = Register(RegData)]
                 ELSE IF st.player = Register(RegData)
                 THEN [s2 EXCEPT !.player = Pos(splitu16(pos)),
                                 !.player_page = page_id]
                 ELSE s2
        ELSE s

\* a swap that never moves the player out of the Data register
exec_swap_one_way(st, s, page_id, pos) ==
    LET v == st.registers[RegData]
    IN  IF page_id \in DOMAIN st.pages
        THEN LET s2 == [s EXCEPT
                           !.registers[RegData] =
                               GridGet(st.pages[page_id].memory, pos),
                           !.pages[page_id].memory = GridSet(@, pos, v)]
             IN  IF st.player_page = page_id /\ st.player = Pos(splitu16(pos))
                 THEN [s2 EXCEPT !.player = Register(RegData)]
                 ELSE s2
        ELSE s

exec_swap(st, s, page_id, pos) ==
    LET v == st.registers[RegData]
    IN  IF page_id \in DOMAIN st.pages
        THEN LET s2 == [s EXCEPT
                           !.registers[RegData] =
                               GridGet(st.pages[page_id].memory, pos),
                           !.pages[page_id].memory = GridSet(@, pos, v)]
             IN  IF st.player_page = page_id /\ st.player = Pos(splitu16(pos))
                 THEN [s2 EXCEPT !.player = Register(RegData)]
                 ELSE IF st.player = Register(RegData)
                 THEN [s2 EXCEPT !.player = Pos(splitu16(pos)),
                                 !.player_page = page_id]
                 ELSE s2
        ELSE s

\* a program counter that wraps to 0 after 0xFFFF
pc_wrapping_add(pc) == (pc + 1) % (U16Max + 1)

\* pc.checked_add(1).unwrap_or(pc)
pc_checked_add(pc) == IF pc + 1 > U16Max THEN pc ELSE pc + 1

\* a comparison of the stored Data value, without the player bit
exec_compare_stored(st, s, v) ==
    LET data == st.registers[RegData]
    IN  [s EXCEPT !.registers[RegCompare] =
            IF data > v THEN 1 ELSE IF data < v THEN 255 ELSE 0]

exec_compare(st, s, v) ==
    LET data == get_register_effective(st.registers, RegData, st.player,
                                       player_mask(st))
    IN  [s EXCEPT !.registers[RegCompare] =
            IF data > v THEN 1 ELSE IF data < v THEN 255 ELSE 0]

\* a Page instruction that no rule can switch off
exec_page_unconditional(st, s, v) ==
    change_cpu_page([s EXCEPT !.page_instruction_executed = TRUE], v)

exec_page(st, s, v) ==
    IF st.game_rules.page_instruction
    THEN change_cpu_page([s EXCEPT !.page_instruction_executed = TRUE], v)
    ELSE s

exec_add(st, s, v) ==
    LET data == get_register_effective(st.registers, RegData, st.player,
                                       player_mask(st))
    IN  [s EXCEPT !.registers[RegData] = (data + v) % 256]

\* a CPU whose jumps test the stored Compare value, without the player bit
step_cpu_stored_compare(st) ==
    LET mask == player_mask(st)
        page_id == get_register_effective(st.registers, RegPage, st.player, mask)
        pc == st.pc
        instr == read_instruction(st, pc, page_id)
        s == [st EXCEPT !.pc = pc_checked_add(pc),
                        !.trace.stepped = TRUE,
                        !.trace.executed = @ + (IF instr.op = "None" THEN 0 ELSE 1),
                        !.trace.instr = instr,
                        !.trace.fetch_pc = pc,
                        !.trace.cpu_page = page_id]
        compare_value == st.registers[RegCompare]
    IN  CASE instr.op = "Swap" -> exec_swap(st, s, page_id, instr.arg)
          [] instr.op = "Jump" -> [s EXCEPT !.pc = instr.arg]
          [] instr.op = "JumpEqual" ->
                IF compare_value = 0 THEN [s EXCEPT !.pc = instr.arg] ELSE s
          [] instr.op = "JumpGreater" ->
                IF compare_value = 1 THEN [s EXCEPT !.pc = instr.arg] ELSE s
          [] instr.op = "JumpLess" ->
                IF compare_value > 1 THEN [s EXCEPT !.pc = instr.arg] ELSE s
          [] instr.op = "Compare" -> exec_compare(st, s, instr.arg)
          [] instr.op = "Page" -> exec_page(st, s, instr.arg)
          [] instr.op = "Add" -> exec_add(st, s, instr.arg)
          [] instr.op = "None" -> [s EXCEPT !.pc = pc]

\* a CPU that steps over a byte that is no opcode
step_cpu_none_advances(st) ==
    LET mask == player_mask(st)
        page_id == get_register_effective(st.registers, RegPage, st.player, mask)
        pc == st.pc
        instr == read_instruction(st, pc, page_id)
        s == [st EXCEPT !.pc = pc_checked_add(pc),
                        !.trace.stepped = TRUE,
                        !.trace.executed = @ + (IF instr.op = "None" THEN 0 ELSE 1),
                        !.trace.instr = instr,
                        !.trace.fetch_pc = pc,
                        !.trace.cpu_page = page_id]
        compare_value == get_register_effective(st.registers, RegCompare,
                                                st.player, mask)
    IN  CASE instr.op = "Swap" -> exec_swap(st, s, page_id, instr.arg)
          [] instr.op = "Jump" -> [s EXCEPT !.pc = instr.arg]
          [] instr.op = "JumpEqual" ->
                IF compare_value = 0 THEN [s EXCEPT !.pc = instr.arg] ELSE s
          [] instr.op = "JumpGreater" ->
                IF compare_value = 1 THEN [s EXCEPT !.pc = instr.arg] ELSE s
          [] instr.op = "JumpLess" ->
                IF compare_value > 1 THEN [s EXCEPT !.pc = instr.arg] ELSE s
          [] instr.op = "Compare" -> exec_compare(st, s, instr.arg)
          [] instr.op = "Page" -> exec_page(st, s, instr.arg)
          [] instr.op = "Add" -> exec_add(st, s, instr.arg)
          [] instr.op = "None" -> s

step_cpu(st) ==
    LET mask == player_mask(st)
        page_id == get_register_effective(st.registers, RegPage, st.player, mask)
        pc == st.pc
        instr == read_instruction(st, pc, page_id)
        s == [st EXCEPT !.pc = pc_checked_add(pc),
                        !.trace.stepped = TRUE,
                        !.trace.executed = @ + (IF instr.op = "None" THEN 0 ELSE 1),
                        !.trace.instr = instr,
                        !.trace.fetch_pc = pc,
                        !.trace.cpu_page = page_id]
        compare_value == get_register_effective(st.registers, RegCompare,
                                                st.player, mask)
    IN  CASE instr.op = "Swap" -> exec_swap(st, s, page_id, instr.arg)
          [] instr.op = "Jump" -> [s EXCEPT !.pc = instr.arg]
          [] instr.op = "JumpEqual" ->
                IF compare_value = 0 THEN [s EXCEPT !.pc = instr.arg] ELSE s
          [] instr.op = "JumpGreater" ->
                IF compare_value = 1 THEN [s EXCEPT !.pc = instr.arg] ELSE s
          [] instr.op = "JumpLess" ->
                IF compare_value > 1 THEN [s EXCEPT !.pc = instr.arg] ELSE s
          [] instr.op = "Compare" -> exec_compare(st, s, instr.arg)
          [] instr.op = "Page" -> exec_page(st, s, instr.arg)
          [] instr.op = "Add" -> exec_add(st, s, instr.arg)
          [] instr.op = "None" -> [s EXCEPT !.pc = pc]

(***************************************************************************)
(* GamePlayState::make_move                                                *)
(***************************************************************************)
MoveOf(dir) == [kind |-> "Move", dir |-> dir]
RotatePage == [kind |-> "RotatePage", dir |-> "none"]

\* a CPU that runs whatever page the player is on
in_sync_always(st) == TRUE

\* self.player_page == self.cpu[0].get_register_effective_r(RegisterId::Page, ..)
in_sync(st) ==
    st.player_page =
        get_register_effective(st.registers, RegPage, st.player, player_mask(st))

MemoryOf(st) == [q \in DOMAIN st.pages |-> st.pages[q].memory]

\* a make_move in which a Move that did not relocate the player does not
\* advance the world
make_move_skips_blocked(st, action) ==
    LET s0 == [st EXCEPT !.trace =
                  [NoTrace EXCEPT !.action = action.kind, !.dir = action.dir,
                                  !.from_player = st.player,
                                  !.from_page = st.player_page]]
        s1 == IF action.kind = "Move" THEN move_player(s0, action.dir)
              ELSE rotate_page(s0)
        advance_world == IF action.kind = "Move" THEN s1.player # s0.player
                         ELSE rotate_page_returns
        s1t == [s1 EXCEPT !.trace.moved_player = s1.player,
                          !.trace.moved_page = s1.player_page]
        s2 == apply_triggers(s1t)
        s2t == [s2 EXCEPT !.trace.trig_pc = s2.pc,
                          !.trace.trig_registers = s2.registers,
                          !.trace.trig_memory = MemoryOf(s2),
                          !.trace.trig_player = s2.player,
                          !.trace.trig_page = s2.player_page]
        s3 == IF advance_world /\ in_sync(s2t) THEN step_cpu(s2t) ELSE s2t
    IN  [s3 EXCEPT !.visited_pages = Bits256_set(@, s3.player_page, TRUE)]

\* a make_move that steps the CPU before it applies the triggers
make_move_steps_first(st, action) ==
    LET s0 == [st EXCEPT !.trace =
                  [NoTrace EXCEPT !.action = action.kind, !.dir = action.dir,
                                  !.from_player = st.player,
                                  !.from_page = st.player_page]]
        s1 == IF action.kind = "Move" THEN move_player(s0, action.dir)
              ELSE rotate_page(s0)
        advance_world == IF action.kind = "Move" THEN move_player_returns
                         ELSE rotate_page_returns
        s1t == [s1 EXCEPT !.trace.moved_player = s1.player,
                          !.trace.moved_page = s1.player_page]
        s2 == IF advance_world /\ in_sync(s1t) THEN step_cpu(s1t) ELSE s1t
        s3 == apply_triggers(s2)
        s3t == [s3 EXCEPT !.trace.trig_pc = s3.pc,
                          !.trace.trig_registers = s3.registers,
                          !.trace.trig_memory = MemoryOf(s3),
                          !.trace.trig_player = s3.player,
                          !.trace.trig_page = s3.player_page]
    IN  [s3t EXCEPT !.visited_pages = Bits256_set(@, s3t.player_page, TRUE)]

make_move(st, action) ==
    LET s0 == [st EXCEPT !.trace =
                  [NoTrace EXCEPT !.action = action.kind, !.dir = action.dir,
                                  !.from_player = st.player,
                                  !.from_page = st.player_page]]
        s1 == IF action.kind = "Move" THEN move_player(s0, action.dir)
              ELSE rotate_page(s0)
        advance_world == IF action.kind = "Move" THEN move_player_returns
                         ELSE rotate_page_returns
        s1t == [s1 EXCEPT !.trace.moved_player = s1.player,
                          !.trace.moved_page = s1.player_page]
        s2 == apply_triggers(s1t)
        s2t == [s2 EXCEPT !.trace.trig_pc = s2.pc,
                          !.trace.trig_registers = s2.registers,
                          !.trace.trig_memory = MemoryOf(s2),
                          !.trace.trig_player = s2.player,
                          !.trace.trig_page = s2.player_page]
        s3 == IF advance_world /\ in_sync(s2t) THEN step_cpu(s2t) ELSE s2t
    IN  [s3 EXCEPT !.visited_pages = Bits256_set(@, s3.player_page, TRUE)]

(***************************************************************************)
(* The levels the game is played on.  Cell(x, y, v) is byte v in column x  *)
(* of row y.                                                               *)
(*                                                                         *)
(* LevelTrigger follows tests::trigger (the player at (0,0), a one-time    *)
(* trigger at (1,0), a repeatable one at (2,0), a one-time one at (3,0));  *)
(* the triggers point at 0x1010, 0x2010 and 0x3010, where it has code, and *)
(* it adds a stored byte at (2,0), a wall byte at (1,1), a Message trigger *)
(* at (0,1), an EndOfLevel trigger at (0,2) and a Message("WIN") trigger   *)
(* at (1,2).                                                               *)
(*                                                                         *)
(* LevelPage is the level of tests::page_instruction: two pages of code,   *)
(* the program counter set to 0x0001.                                      *)
(***************************************************************************)
Cell(x, y, v) == (joinu8(x, y) :> v)

TriggerGrid ==
    Cell(0, 0, 64) @@ Cell(1, 1, 64) @@ Cell(2, 0, 9)
    \* 0x1010: a 5 / c 5 / e 0x20 0x10
    @@ Cell(16, 16, 97) @@ Cell(17, 16, 5)
    @@ Cell(16, 17, 99) @@ Cell(17, 17, 5)
    @@ Cell(16, 18, 101) @@ Cell(17, 18, 32) @@ Cell(18, 18, 16)
    \* 0x2010: s 0x02 0x00 / s 0x02 0x00 / j 0x10 0x10
    @@ Cell(32, 16, 115) @@ Cell(33, 16, 2)
    @@ Cell(32, 17, 115) @@ Cell(33, 17, 2)
    @@ Cell(32, 18, 106) @@ Cell(33, 18, 16) @@ Cell(34, 18, 16)
    \* 0x3010: p 2
    @@ Cell(48, 16, 112) @@ Cell(49, 16, 2)

TriggerTriggers ==
    (joinu8(1, 0) :> Trigger(V2(1, 0), SetPC(4112), TRUE))
    @@ (joinu8(2, 0) :> Trigger(V2(2, 0), SetPC(8208), FALSE))
    @@ (joinu8(3, 0) :> Trigger(V2(3, 0), SetPC(12304), TRUE))
    @@ (joinu8(0, 1) :> Trigger(V2(0, 1), Message("hello"), TRUE))
    @@ (joinu8(0, 2) :> Trigger(V2(0, 2), EndOfLevel, FALSE))
    @@ (joinu8(1, 2) :> Trigger(V2(1, 2), Message("WIN"), TRUE))

LevelTrigger ==
    [from_grid(TriggerGrid) EXCEPT !.pages[DEFAULT_PAGE].triggers = TriggerTriggers]

PageGrid ==
    Cell(0, 0, 64) @@ Cell(1, 0, 32) @@ Cell(2, 0, 32) @@ Cell(3, 0, 1)
    @@ Cell(0, 1, 115)
    @@ Cell(0, 2, 112) @@ Cell(1, 2, 2)
    @@ Cell(0, 3, 115) @@ Cell(1, 3, 3)
    @@ Cell(0, 5, 106) @@ Cell(1, 5, 16) @@ Cell(2, 5, 16)

Page2Grid ==
    Cell(0, 3, 115) @@ Cell(1, 3, 4)
    @@ Cell(0, 5, 106) @@ Cell(2, 5, 6)
    @@ Cell(0, 6, 106) @@ Cell(2, 6, 5)

LevelPage ==
    [from_grid(PageGrid) EXCEPT !.pages = MapPut(@, 2, PageState_from_grid(Page2Grid)),
                                !.pc = 1]

\* GamePlayState::load_from_folder for a level folder that holds the grids
\* of the pages in grids, no extra triggers and no initial position;
\* initial_page is the configured page, -1 when the configuration has none
load_from_folder(grids, initial_page) ==
    LET pages == [q \in DOMAIN grids |-> PageState_from_grid(grids[q])]
        loaded == [GamePlayState_new EXCEPT !.pages = pages]
        first == IF initial_page # -1 THEN initial_page
                 ELSE IF Cardinality(DOMAIN pages) = 1
                 THEN CHOOSE q \in DOMAIN pages : TRUE
                 ELSE DEFAULT_PAGE
        paged == set_initial_page(loaded, first)
        initial_pos == get_start(current_page(paged).memory)
        placed == [paged EXCEPT !.player = Pos(initial_pos)]
    IN  IF placed.player_page \in DOMAIN placed.pages
           /\ GridGet(placed.pages[placed.player_page].memory,
                      joinu16(initial_pos)) = player_mask(placed)
        THEN [placed EXCEPT !.pages[placed.player_page].memory =
                                GridSet(@, joinu16(initial_pos), 0)]
        ELSE placed

\* LevelRegisters is a level folder with the single page 2: Compare 0 at
\* 0x0000, Swap 0x0002 at 0x0001 and the player under them at (0,2), from
\* where the player gets onto the registers while page 0x42 does not exist.
RegistersGrid ==
    Cell(0, 0, 99)
    @@ Cell(0, 1, 115) @@ Cell(2, 1, 2)
    @@ Cell(0, 2, 64)

LevelRegisters == load_from_folder((2 :> RegistersGrid), -1)

\* LevelRoundTrip is a level folder with the single page 2: Swap 0x0002 at
\* 0x0000 and at 0x0001 and the player under them at (0,2); the player is
\* swapped onto the registers, visits page 0x42 from the Page register and is
\* swapped back onto the grid without a Page instruction.
LevelRoundTrip ==
    load_from_folder((2 :> (Cell(0, 0, 115) @@ Cell(2, 0, 2)
                            @@ Cell(0, 1, 115) @@ Cell(2, 1, 2)
                            @@ Cell(0, 2, 64))), -1)

Levels == {LevelTrigger, LevelPage, LevelRegisters, LevelRoundTrip}

RuleSets ==
    [wrap_mode : WrapingModes,
     reset_registers_on_trigger : BOOLEAN,
     page_instruction : BOOLEAN,
     rotate_page : PageRotationRules]

TriggerIds(st) ==
    UNION {{<<q, k>> : k \in DOMAIN st.pages[q].triggers} : q \in DOMAIN st.pages}

MaxMoves == 5

GameInit ==
    /\ \E level \in Levels, rules \in RuleSets :
          game = [level EXCEPT !.game_rules = rules]
    /\ moves = 0
    /\ fire_count = [t \in TriggerIds(game) |-> 0]

\* the effect of the trigger named in the trace has been applied once more
Counted(fc, st) ==
    IF st.trace.fired = -1 THEN fc
    ELSE [fc EXCEPT ![<<st.trace.fired_page, st.trace.fired>>] = @ + 1]

\* game.make_move(PlayerMove::Move(dir))
Move(dir) ==
    /\ moves < MaxMoves
    /\ game' = make_move(game, MoveOf(dir))
    /\ moves' = moves + 1
    /\ fire_count' = Counted(fire_count, game')
    /\ UNCHANGED <<grid_vars, walk_vars, bits_vars>>

\* game.make_move(PlayerMove::RotatePage)
Rotate ==
    /\ moves < MaxMoves
    /\ game' = make_move(game, RotatePage)
    /\ moves' = moves + 1
    /\ fire_count' = Counted(fire_count, game')
    /\ UNCHANGED <<grid_vars, walk_vars, bits_vars>>

Next ==
    \/ \E dir \in MoveDirs : Move(dir)
    \/ Rotate

(***************************************************************************)
(* Bits256 on its own: the operations of tests::test_bits256 (set to true, *)
(* set to false, clear) on the indices the test uses.                      *)

(***************************************************************************)
(* Levels that exercise the instruction set.  Each is a grid loaded by     *)
(* GamePlayState::from_grid (page 0x42) or by load_from_folder (page 2),   *)
(* with the program in column 0 from row 0, the program counter at 0 and   *)
(* the player on the '@' cell under the program; every move steps the CPU  *)
(* once.  The edge levels carry a trigger table (rows from 36) whose       *)
(* triggers set the program counter to code in the last columns and rows.  *)
(***************************************************************************)
\* s 0x0003 / a 0x21 / s 0x0003 with the player at (0,3): the player is
\* swapped onto the Data register, an Add runs, the player is swapped back
LevelCarry ==
    from_grid(
        Cell(0, 0, 115) @@ Cell(2, 0, 3)
        @@ Cell(0, 1, 97) @@ Cell(1, 1, 33)
        @@ Cell(0, 2, 115) @@ Cell(2, 2, 3)
        @@ Cell(0, 3, 64))

\* the byte 0x21 with operand 5 at 0x0000, the player under it at (0,1)
LevelBang ==
    from_grid(
        Cell(0, 0, 33) @@ Cell(1, 0, 5)
        @@ Cell(0, 1, 64))

\* e / g / l to 0x0110 while Compare holds its initial 0xFF; c 9 / p 2 at
\* 0x0110
LevelLess ==
    from_grid(
        Cell(0, 0, 101) @@ Cell(1, 0, 1) @@ Cell(2, 0, 16)
        @@ Cell(0, 1, 103) @@ Cell(1, 1, 1) @@ Cell(2, 1, 16)
        @@ Cell(0, 2, 108) @@ Cell(1, 2, 1) @@ Cell(2, 2, 16)
        @@ Cell(0, 3, 64)
        @@ Cell(1, 16, 99) @@ Cell(2, 16, 9)
        @@ Cell(1, 17, 112) @@ Cell(2, 17, 2))

\* c 0 / l / g / e to 0x0110; j 0x0000 at 0x0110
LevelEqual ==
    from_grid(
        Cell(0, 0, 99)
        @@ Cell(0, 1, 108) @@ Cell(1, 1, 1) @@ Cell(2, 1, 16)
        @@ Cell(0, 2, 103) @@ Cell(1, 2, 1) @@ Cell(2, 2, 16)
        @@ Cell(0, 3, 101) @@ Cell(1, 3, 1) @@ Cell(2, 3, 16)
        @@ Cell(0, 4, 64)
        @@ Cell(1, 16, 106))

\* a 5 / c 0 / e / l / g to 0x0110
LevelGreater ==
    from_grid(
        Cell(0, 0, 97) @@ Cell(1, 0, 5)
        @@ Cell(0, 1, 99)
        @@ Cell(0, 2, 101) @@ Cell(1, 2, 1) @@ Cell(2, 2, 16)
        @@ Cell(0, 3, 108) @@ Cell(1, 3, 1) @@ Cell(2, 3, 16)
        @@ Cell(0, 4, 103) @@ Cell(1, 4, 1) @@ Cell(2, 4, 16)
        @@ Cell(0, 5, 64))

\* page 2 of a level folder: s 0x0004 / c 0x3F / g / l to 0x0110 with the
\* player at (0,4), who is swapped onto Data and walks down the registers
LevelOnCompare ==
    load_from_folder((2 :> (
        Cell(0, 0, 115) @@ Cell(2, 0, 4)
        @@ Cell(0, 1, 99) @@ Cell(1, 1, 63)
        @@ Cell(0, 2, 103) @@ Cell(1, 2, 1) @@ Cell(2, 2, 16)
        @@ Cell(0, 3, 108) @@ Cell(1, 3, 1) @@ Cell(2, 3, 16)
        @@ Cell(0, 4, 64))), -1)

\* the player at (0,1); table triggers at (1,1), (2,1), (3,1) and (1,2)
\* that set the program counter to 0xFFFF, 0xFE05, 0xFF07 and 0x01FF; the
\* opcode op at 0xFFFF, j 0x12 at 0xFE05, c at 0xFF07, c 1 at 0x01FF, and
\* stored bytes in columns 0 and 1 of the rows of the code in column 254
\* and 255
EdgeGrid(op) ==
    Cell(0, 1, 64)
    @@ Cell(0, 36, 1) @@ Cell(1, 36, 1) @@ Cell(2, 36, 255) @@ Cell(3, 36, 255)
    @@ Cell(0, 37, 2) @@ Cell(1, 37, 1) @@ Cell(2, 37, 254) @@ Cell(3, 37, 5)
    @@ Cell(0, 38, 3) @@ Cell(1, 38, 1) @@ Cell(2, 38, 255) @@ Cell(3, 38, 7)
    @@ Cell(0, 39, 1) @@ Cell(1, 39, 2) @@ Cell(2, 39, 1) @@ Cell(3, 39, 255)
    @@ Cell(255, 255, op) @@ Cell(0, 255, 3) @@ Cell(0, 0, 4)
    @@ Cell(254, 5, 106) @@ Cell(255, 5, 18) @@ Cell(0, 5, 7) @@ Cell(0, 6, 7)
    @@ Cell(255, 7, 99) @@ Cell(0, 7, 9) @@ Cell(0, 8, 9) @@ Cell(1, 7, 9)
    @@ Cell(1, 255, 99) @@ Cell(2, 255, 1)

\* the edge levels have the opcode a, e or p at 0xFFFF; the level after them
\* has the player at (0,1), a 1 at 0x0002 and a trigger table with the
\* records (1,1), (2,0) and (3,1), all three with the target 0x0002; the last
\* level has a 5 at 0x0000, c 3 at 0x0003, the player at (0,1) and triggers
\* at (2,1) to 0x0003 and at (1,2) to the empty cell 0x0909
CpuLevels ==
    {LevelCarry, LevelBang, LevelLess, LevelEqual, LevelGreater, LevelOnCompare}
    \cup {from_grid(EdgeGrid(op)) : op \in {97, 101, 112}}
    \cup {from_grid(Cell(0, 1, 64) @@ Cell(0, 2, 97) @@ Cell(1, 2, 1)
                    @@ Cell(0, 36, 1) @@ Cell(1, 36, 1) @@ Cell(3, 36, 2)
                    @@ Cell(0, 37, 2) @@ Cell(3, 37, 2)
                    @@ Cell(0, 38, 3) @@ Cell(1, 38, 1) @@ Cell(3, 38, 2)),
          from_grid(Cell(0, 0, 97) @@ Cell(1, 0, 5) @@ Cell(0, 1, 64)
                    @@ Cell(0, 3, 99) @@ Cell(1, 3, 3)
                    @@ Cell(0, 36, 2) @@ Cell(1, 36, 1) @@ Cell(3, 36, 3)
                    @@ Cell(0, 37, 1) @@ Cell(1, 37, 2) @@ Cell(2, 37, 9)
                    @@ Cell(3, 37, 9))}

CpuRuleSets ==
    [wrap_mode : {"Block"},
     reset_registers_on_trigger : BOOLEAN,
     page_instruction : BOOLEAN,
     rotate_page : {"Always"}]

(***************************************************************************)
MaxBitOps == 4

BitIndices == {0, 1, 7, 8, 21, 255}

BitOp(op, idx, value, was) == [op |-> op, idx |-> idx, value |-> value, was |-> was]

BitsInit ==
    /\ bits = Bits256_new
    /\ bits_last = BitOp("new", 0, FALSE, FALSE)
    /\ bits_n = 0

\* a.set(idx, value)
BitsSet(idx, value) ==
    /\ bits_n < MaxBitOps
    /\ bits' = Bits256_set(bits, idx, value)
    /\ bits_last' = BitOp("set", idx, value, Bits256_get(bits, idx))
    /\ bits_n' = bits_n + 1
    /\ UNCHANGED <<grid_vars, walk_vars, game_vars>>

\* a.clear()
BitsClear ==
    /\ bits_n < MaxBitOps
    /\ bits' = Bits256_clear(bits)
    /\ bits_last' = BitOp("clear", 0, FALSE, FALSE)
    /\ bits_n' = bits_n + 1
    /\ UNCHANGED <<grid_vars, walk_vars, game_vars>>

BitsNext ==
    \/ \E idx \in BitIndices, value \in BOOLEAN : BitsSet(idx, value)
    \/ BitsClear

BitsIdle ==
    /\ bits = Bits256_new
    /\ bits_last = BitOp("new", 0, FALSE, FALSE)
    /\ bits_n = 0

WalkIdle == walk_p = V2(0, 0) /\ walk_mode = "Block" /\ walk_n = 0

GridIdle ==
    /\ gstage = "idle"
    /\ before = EmptyGrid
    /\ after = EmptyGrid
    /\ the_diff = << >>
    /\ serialized = << >>
    /\ deserialized = [ok |-> FALSE, hunks |-> << >>]
    /\ patched = EmptyGrid
    /\ patched_de = EmptyGrid
    /\ self_source = EmptyGrid
    /\ self_diff = << >>
    /\ self_target = EmptyGrid
    /\ self_patched = EmptyGrid

GameIdle == game = GamePlayState_new /\ moves = 0 /\ fire_count = << >>

InitGrid == GridInit /\ WalkIdle /\ GameIdle /\ BitsIdle

SpecGrid == InitGrid /\ [][GridNext]_vars

InitStep == WalkInit /\ GridIdle /\ GameIdle /\ BitsIdle

SpecStep == InitStep /\ [][WalkNext]_vars

InitBytes == BytesInit /\ WalkIdle /\ GameIdle /\ BitsIdle

SpecBytes == InitBytes /\ [][BytesNext]_vars

Init == GameInit /\ GridIdle /\ WalkIdle /\ BitsIdle

Spec == Init /\ [][Next]_vars

InitCpu ==
    /\ \E level \in CpuLevels, rules \in CpuRuleSets :
          game = [level EXCEPT !.game_rules = rules]
    /\ moves = 0
    /\ fire_count = [t \in TriggerIds(game) |-> 0]
    /\ GridIdle /\ WalkIdle /\ BitsIdle

SpecCpu == InitCpu /\ [][Next]_vars

InitBits == BitsInit /\ GridIdle /\ WalkIdle /\ GameIdle

SpecBits == InitBits /\ [][BitsNext]_vars

(***************************************************************************)
(* Properties of the diff/patch codec (checked under SpecGrid).            *)
(***************************************************************************)
PatchedStages == {"patched", "serialized", "deserialized", "roundtrip"}

\* C1: diff/patch round trip: once before.clone() has been patched with
\* diff(before, after), it equals after at every address (an address outside
\* both domains reads 0 in both grids).
C1_DiffPatchRoundTrip ==
    gstage \in PatchedStages =>
        \A a \in (DOMAIN patched) \cup (DOMAIN after) \cup (DOMAIN before) :
            GridGet(patched, a) = GridGet(after, a)

C1_Witness ==
    /\ gstage = "patched"
    /\ before # EmptyGrid
    /\ Len(the_diff) >= 3
    /\ \E k \in 1..Len(the_diff) : Len(the_diff[k].data) >= 5
    /\ \E a \in DOMAIN before : GridGet(after, a) = 0
    /\ patched = after

\* C2: serialization round trip: deserialize(serialize(diff)) succeeds; every
\* fragment read back holds 1..256 bytes; a hunk of the diff comes back as
\* its 256-byte pieces at consecutive start addresses (the last piece may be
\* shorter); and the deserialized diff patched onto before gives after.
C2_SerializeRoundTrip ==
    /\ gstage \in {"deserialized", "roundtrip"} =>
          /\ deserialized.ok
          /\ \A k \in 1..Len(deserialized.hunks) :
                 /\ Len(deserialized.hunks[k].data) >= 1
                 /\ Len(deserialized.hunks[k].data) <= 256
          /\ \A h \in 1..Len(the_diff) :
                 \A j \in 0..((Len(the_diff[h].data) - 1) \div 256) :
                    \E k \in 1..Len(deserialized.hunks) :
                       /\ deserialized.hunks[k].pos = the_diff[h].pos + 256 * j
                       /\ deserialized.hunks[k].data =
                              SubSeq(the_diff[h].data, 256 * j + 1,
                                     Min2(256 * j + 256, Len(the_diff[h].data)))
    /\ gstage = "roundtrip" =>
          \A a \in (DOMAIN patched_de) \cup (DOMAIN after) :
              GridGet(patched_de, a) = GridGet(after, a)

C2_Witness ==
    /\ gstage = "roundtrip"
    /\ \E h \in 1..Len(the_diff) : Len(the_diff[h].data) > 256
    /\ Len(deserialized.hunks) > Len(the_diff)
    /\ Len(the_diff) >= 2
    /\ patched_de = after

\* C3: diff idempotence: g.diff(&g) has no hunks, whatever g is, and a grid
\* patched with that diff is unchanged; in the round trip, equal grids give
\* an empty diff.
C3_DiffIdempotent ==
    /\ gstage = "self" =>
          /\ Len(self_diff) = 0
          /\ \A a \in (DOMAIN self_patched) \cup (DOMAIN self_target) :
                 GridGet(self_patched, a) = GridGet(self_target, a)
    /\ (gstage = "diffed" /\ GridEq(before, after)) => Len(the_diff) = 0

C3_Witness ==
    /\ gstage = "self"
    /\ Cardinality(DOMAIN self_source) > 8
    /\ self_target # EmptyGrid
    /\ self_target # self_source
    /\ self_patched = self_target

(***************************************************************************)
(* Properties of step (checked under SpecStep).                            *)
(***************************************************************************)
DirDelta(d) ==
    CASE d = "Up" -> V2(0, -1)
      [] d = "Left" -> V2(-1, 0)
      [] d = "Down" -> V2(0, 1)
      [] d = "Right" -> V2(1, 0)

InsideGrid(x, y) == x \in 0..255 /\ y \in 0..255

\* C10: from every position of the walk and for every direction: if the
\* neighbouring cell lies inside the grid, step returns it in every wrap
\* mode; otherwise Block returns the position unchanged and WrapLine wraps
\* the moved axis modulo 256 and keeps the other axis.
C10_StepBlockWrapLine ==
    \A d \in MoveDirs :
        LET tx == walk_p.x + DirDelta(d).x
            ty == walk_p.y + DirDelta(d).y
        IN  IF InsideGrid(tx, ty)
            THEN \A m \in WrapingModes : step(walk_p, d, m) = V2(tx, ty)
            ELSE /\ step(walk_p, d, "Block") = walk_p
                 /\ step(walk_p, d, "WrapLine") =
                        IF d \in {"Up", "Down"}
                        THEN V2(walk_p.x, (ty + 256) % 256)
                        ELSE V2((tx + 256) % 256, walk_p.y)

\* the walk has wrapped from (0,0) upwards to (0,255) in WrapLine mode
C10_Witness ==
    /\ walk_mode = "WrapLine"
    /\ walk_n = 1
    /\ walk_p = V2(0, 255)
    /\ step(V2(0, 0), "Up", "Block") = V2(0, 0)
    /\ step(V2(0, 0), "Up", "WrapLine") = V2(0, 255)

(***************************************************************************)
(* Properties of the game, checked under Spec.                             *)
(***************************************************************************)
\* bitwise OR of two bytes, bit by bit
RECURSIVE BitOrFrom(_, _, _)
BitOrFrom(a, b, i) ==
    IF i = 8 THEN 0
    ELSE (IF (a \div 2 ^ i) % 2 = 1 \/ (b \div 2 ^ i) % 2 = 1 THEN 2 ^ i ELSE 0)
         + BitOrFrom(a, b, i + 1)

BitOr(a, b) == BitOrFrom(a, b, 0)

\* the cells looked at: every stored cell of the page, the cells around the
\* origin and the far corner
ProbePositions(page) ==
    {splitu16(a) : a \in DOMAIN page.memory}
    \cup {V2(x, y) : x \in 0..4, y \in 0..3} \cup {V2(255, 255)}

\* C4: the effective value of a location (a cell of the page the player is
\* on, or a register) is the stored value OR the player mask when the
\* player occupies the location and the stored value otherwise; the mask is
\* 1 << player_offset, 0x40.
C4_EffectiveValueRule ==
    LET mask == player_mask(game)
        page == current_page(game)
    IN  /\ mask = 2 ^ game.player_offset
        /\ mask = 64
        /\ \A p \in ProbePositions(page) :
              effective_value(game, page, p) =
                  IF game.player.kind = "Pos" /\ PosOf(game.player) = p
                  THEN BitOr(GridGet(page.memory, joinu16(p)), mask)
                  ELSE GridGet(page.memory, joinu16(p))
        /\ \A j \in DOMAIN game.registers :
              get_register_effective(game.registers, j, game.player, mask) =
                  IF game.player.kind = "Register" /\ game.player.r = j
                  THEN BitOr(game.registers[j], mask)
                  ELSE game.registers[j]

\* the player stands on a cell that stores 9 and reads 0x49 there, while a
\* stored neighbour cell reads its own byte
C4_Witness ==
    /\ game.player = Pos(V2(2, 0))
    /\ GridGet(current_page(game).memory, joinu8(2, 0)) = 9
    /\ effective_value(game, current_page(game), V2(2, 0)) = 73
    /\ effective_value(game, current_page(game), V2(1, 1)) = 64
    /\ get_register_effective(game.registers, RegData, game.player,
                              player_mask(game)) = game.registers[RegData]

\* the memory of page q as the last action's trigger phase left it; the
\* null page for a page that does not exist
TraceMemory(t, q) ==
    IF q \in DOMAIN t.trig_memory THEN t.trig_memory[q] ELSE EmptyGrid

\* the candidate cell of the last Move and its effective value before the
\* movement (neither movement nor triggers write memory)
Candidate(st) ==
    step(PosOf(st.trace.from_player), st.trace.dir, st.game_rules.wrap_mode)

CandidateValue(st) ==
    LET stored == GridGet(TraceMemory(st.trace, st.trace.from_page),
                          joinu16(Candidate(st)))
    IN  IF Candidate(st) = PosOf(st.trace.from_player)
        THEN BitOr(stored, 64) ELSE stored

\* C5: for a Move requested with the player on a grid position, when the
\* effective value of the candidate cell on the player's page has the player
\* bit set the movement leaves position and page as they were; the player
\* is on the candidate after the movement only when the bit is clear.
C5_AccessibilityGating ==
    LET t == game.trace
    IN  (t.action = "Move" /\ t.from_player.kind = "Pos") =>
            /\ t.moved_page = t.from_page
            /\ (CandidateValue(game) \div 64) % 2 = 1 =>
                   t.moved_player = t.from_player
            /\ (CandidateValue(game) \div 64) % 2 = 0 =>
                   t.moved_player = Pos(Candidate(game))

\* a Move towards another cell, one that stores the player bit, was refused
C5_Witness ==
    /\ game.trace.action = "Move"
    /\ game.trace.from_player.kind = "Pos"
    /\ Candidate(game) # PosOf(game.trace.from_player)
    /\ (CandidateValue(game) \div 64) % 2 = 1
    /\ game.trace.moved_player = game.trace.from_player

\* the trigger with identity id = <<page, key>> in state st
TriggerOf(st, id) == st.pages[id[1]].triggers[id[2]]

OneTimeIds == {id \in DOMAIN fire_count : TriggerOf(game, id).one_time}
RepeatableIds == {id \in DOMAIN fire_count : ~TriggerOf(game, id).one_time}

\* the movement phase of the action leading to st ended on trigger id
VisitedBy(st, id) ==
    /\ st.trace.moved_player = Pos(splitu16(id[2]))
    /\ st.trace.moved_page = id[1]

\* st shows the effect of trigger id as the trigger phase left it
EffectShown(st, id) ==
    LET effect == TriggerOf(st, id).effect
    IN  /\ st.trace.fired = id[2]
        /\ st.trace.fired_page = id[1]
        /\ effect.kind = "SetPC" => st.trace.trig_pc = effect.pc
        /\ effect.kind = "EndOfLevel" => st.end_of_level

\* C6: the effect of a one-time trigger is applied on the first action that
\* ends its movement phase on the trigger's position on its page, and on no
\* other action; from then on the trigger is not active.
C6_OneTimeFiresOnce ==
    [][\A id \in OneTimeIds :
          /\ fire_count[id] = 0 <=> is_active(TriggerOf(game, id))
          /\ (VisitedBy(game', id) /\ fire_count[id] = 0) =>
                 fire_count'[id] = 1 /\ EffectShown(game', id)
          /\ ~(VisitedBy(game', id) /\ fire_count[id] = 0) =>
                 /\ fire_count'[id] = fire_count[id]
                 /\ ~(game'.trace.fired = id[2] /\ game'.trace.fired_page = id[1])
          /\ fire_count'[id] <= 1
          /\ fire_count'[id] = 1 => ~is_active(TriggerOf(game', id))]_vars

\* a one-time trigger that has fired was visited again and nothing fired
C6_Witness ==
    \E id \in OneTimeIds :
        /\ VisitedBy(game, id)
        /\ game.trace.fired = -1
        /\ fire_count[id] = 1
        /\ moves >= 3

\* C7 as stated: a repeatable trigger that has fired stays active, and its
\* effect is applied again on every later action after which the player
\* stands on its position on its page.
C7_Original ==
    [][\A id \in RepeatableIds :
          (/\ fire_count[id] >= 1
           /\ game'.player = Pos(splitu16(id[2]))
           /\ game'.player_page = id[1]) =>
              /\ is_active(TriggerOf(game', id))
              /\ fire_count'[id] = fire_count[id] + 1]_vars

\* C7: a repeatable trigger is active in every state, and its effect is
\* applied on every action whose movement phase, which precedes the CPU
\* step, ends with the player on its position on its page, and on no other.
C7_RepeatableFiresOnVisit ==
    [][\A id \in RepeatableIds :
          /\ is_active(TriggerOf(game, id))
          /\ is_active(TriggerOf(game', id))
          /\ VisitedBy(game', id) =>
                 fire_count'[id] = fire_count[id] + 1 /\ EffectShown(game', id)
          /\ ~VisitedBy(game', id) => fire_count'[id] = fire_count[id]]_vars

\* a repeatable SetPC trigger has been applied on two visits
C7_Witness ==
    \E id \in RepeatableIds :
        /\ TriggerOf(game, id).effect.kind = "SetPC"
        /\ fire_count[id] >= 2
        /\ TriggerOf(game, id).triggered
        /\ is_active(TriggerOf(game, id))

\* the addresses at which grids g and h read different bytes
Changed(g, h) ==
    {a \in (DOMAIN g) \cup (DOMAIN h) : GridGet(g, a) # GridGet(h, a)}

\* the last action executed Swap on a page that exists
SwapExecuted(st) ==
    /\ st.trace.stepped
    /\ st.trace.instr.op = "Swap"
    /\ st.trace.cpu_page \in DOMAIN st.pages

\* C8: Swap(addr) executed on an existing page leaves in Data the byte that
\* was stored at addr on the CPU's page and at addr the value that was
\* stored in Data, both without the player bit; no other cell of any page
\* and no other register changes.
C8_SwapExchanges ==
    SwapExecuted(game) =>
        LET t == game.trace
            addr == t.instr.arg
        IN  /\ game.registers[RegData] = GridGet(t.trig_memory[t.cpu_page], addr)
            /\ GridGet(game.pages[t.cpu_page].memory, addr) =
                   t.trig_registers[RegData]
            /\ game.registers[RegPage] = t.trig_registers[RegPage]
            /\ game.registers[RegCompare] = t.trig_registers[RegCompare]
            /\ \A q \in DOMAIN game.pages :
                  Changed(game.pages[q].memory, t.trig_memory[q]) \subseteq
                      (IF q = t.cpu_page THEN {addr} ELSE {})

\* Data = 5 and the byte 9 at 0x0200 have become Data = 9 and the byte 5
C8_Witness ==
    /\ SwapExecuted(game)
    /\ game.trace.instr.arg = joinu8(2, 0)
    /\ game.trace.trig_registers[RegData] = 5
    /\ GridGet(game.trace.trig_memory[game.trace.cpu_page], joinu8(2, 0)) = 9
    /\ game.registers[RegData] = 9
    /\ GridGet(game.pages[game.trace.cpu_page].memory, joinu8(2, 0)) = 5

\* player and CPU were on the same page when the trigger phase of the last
\* action ended
TraceInSync(t) ==
    t.trig_page =
        (IF t.trig_player.kind = "Register" /\ t.trig_player.r = RegPage
         THEN BitOr(t.trig_registers[RegPage], 64)
         ELSE t.trig_registers[RegPage])

\* pc, registers and memory are as the trigger phase left them
AsTriggersLeft(st) ==
    /\ st.pc = st.trace.trig_pc
    /\ st.registers = st.trace.trig_registers
    /\ \A q \in DOMAIN st.pages :
          Changed(st.pages[q].memory, st.trace.trig_memory[q]) = {}

\* C9: one make_move executes at most one instruction, a jump leaving the pc
\* on its target without executing what is there; an instruction is
\* executed only if player_page equals the effective Page register after
\* movement and triggers, and when they differ pc, registers and memory
\* stay as movement and triggers left them.
C9_CpuSyncGating ==
    LET t == game.trace
    IN  /\ t.executed <= 1
        /\ t.executed = 1 => t.stepped /\ t.instr.op # "None"
        /\ t.stepped => TraceInSync(t) /\ t.fetch_pc = t.trig_pc
        /\ (t.stepped /\ t.instr.op = "Jump") =>
               /\ game.pc = t.instr.arg
               /\ game.registers = t.trig_registers
               /\ \A q \in DOMAIN game.pages :
                     Changed(game.pages[q].memory, t.trig_memory[q]) = {}
        /\ (t.action # "none" /\ ~TraceInSync(t)) =>
               ~t.stepped /\ t.executed = 0 /\ AsTriggersLeft(game)

\* a Move found the player on a page other than the CPU's with an
\* instruction under the pc, and nothing was executed
C9_Witness ==
    /\ game.trace.action = "Move"
    /\ ~TraceInSync(game.trace)
    /\ read_instruction(game, game.pc, game.registers[RegPage]).op # "None"
    /\ ~game.trace.stepped
    /\ AsTriggersLeft(game)

(***************************************************************************)
(* Properties of the step function in WrapGrid mode, checked under         *)
(* SpecStep.                                                               *)
(***************************************************************************)
\* the signed address offset of a direction
AddrDelta(d) ==
    CASE d = "Down" -> 1
      [] d = "Up" -> -1
      [] d = "Right" -> 256
      [] d = "Left" -> -256

\* C11: in WrapGrid mode step returns the split of (x * 256 + y + d) modulo
\* 2^16, with d = +1 Down, -1 Up, +0x100 Right, -0x100 Left; (0,0) Up is
\* (255,255), (5,255) Down is (6,0), and a move that stays inside the grid
\* is the ordinary one-cell move.
C11_StepWrapGrid ==
    /\ \A d \in MoveDirs :
          LET a == (walk_p.x * 256 + walk_p.y + AddrDelta(d)) % 65536
              tx == walk_p.x + DirDelta(d).x
              ty == walk_p.y + DirDelta(d).y
          IN  /\ step(walk_p, d, "WrapGrid") = V2(a \div 256, a % 256)
              /\ (walk_p.x \in 1..254 /\ walk_p.y \in 1..254) =>
                     step(walk_p, d, "WrapGrid") = V2(tx, ty)
    /\ step(V2(0, 0), "Up", "WrapGrid") = V2(255, 255)
    /\ step(V2(5, 255), "Down", "WrapGrid") = V2(6, 0)

\* a WrapGrid walk has gone from (0,0) upwards to (255,255)
C11_Witness ==
    /\ walk_mode = "WrapGrid"
    /\ walk_n = 1
    /\ walk_p = V2(255, 255)
    /\ step(V2(0, 0), "Up", "WrapGrid") = walk_p

\* C12 as stated: in WrapGrid mode Right from column 255 gives column 0 of
\* row (y + 1) mod 256.
C12_Original ==
    walk_p.x = 255 =>
        step(walk_p, "Right", "WrapGrid") = V2(0, (walk_p.y + 1) % 256)

\* C12: in WrapGrid mode Right from column 255 gives column 0 of the same
\* row; it is Down from row 255 that continues, onto row 0 of column
\* (x + 1) mod 256.
C12_WrapGridEdges ==
    /\ walk_p.x = 255 => step(walk_p, "Right", "WrapGrid") = V2(0, walk_p.y)
    /\ walk_p.y = 255 =>
           step(walk_p, "Down", "WrapGrid") = V2((walk_p.x + 1) % 256, 0)

\* a WrapGrid walk stands in column 255 of row 7, from where Right leads to
\* column 0 of row 7
C12_Witness ==
    /\ walk_mode = "WrapGrid"
    /\ walk_p = V2(255, 7)
    /\ walk_n >= 1
    /\ step(walk_p, "Right", "WrapGrid") = V2(0, 7)

(***************************************************************************)
(* Properties of the decoder and of patch on arbitrary hunks, checked      *)
(* under SpecBytes.                                                        *)
(***************************************************************************)
\* the first bytes of data form a complete record: a three-byte header and
\* the payload it announces
StartsWithRecord(data) ==
    /\ Len(data) >= 3
    /\ Len(data) >= 3 + data[3] + 1

\* what is left of data after its leading complete records
RECURSIVE AfterRecords(_)
AfterRecords(data) ==
    IF StartsWithRecord(data)
    THEN AfterRecords(SubSeq(data, 3 + data[3] + 2, Len(data)))
    ELSE data

\* the hunks the leading complete records of data stand for
RECURSIVE RecordHunks(_)
RecordHunks(data) ==
    IF StartsWithRecord(data)
    THEN <<[pos |-> data[1] + 256 * data[2],
            data |-> SubSeq(data, 4, 3 + data[3] + 1)]>>
         \o RecordHunks(SubSeq(data, 3 + data[3] + 2, Len(data)))
    ELSE << >>

Decoded == gstage \in {"deserialized", "roundtrip"}

\* C13: deserialize returns a result for every byte sequence; the result is
\* Ok, with the records' hunks, exactly when the sequence is a concatenation
\* of complete records (the empty sequence included), and Err when a
\* payload is cut short or 1 to 3 bytes are left over.
C13_DeserializeStrict ==
    Decoded =>
        LET rest == AfterRecords(serialized)
        IN  /\ deserialized.ok \in BOOLEAN
            /\ deserialized.ok <=> rest = << >>
            /\ deserialized.ok => deserialized.hunks = RecordHunks(serialized)
            /\ Len(rest) \in 1..3 => ~deserialized.ok
            /\ (Len(rest) >= 4 /\ Len(rest) < 3 + rest[3] + 1) => ~deserialized.ok
            /\ ~deserialized.ok =>
                   \/ Len(rest) \in 1..3
                   \/ Len(rest) >= 4 /\ Len(rest) < 3 + rest[3] + 1

\* one complete record followed by two left-over bytes was refused
C13_Witness ==
    /\ Decoded
    /\ serialized = <<2, 0, 0, 255, 0, 2>>
    /\ ~deserialized.ok

\* the byte patch leaves at address a: the byte of the last hunk that has a
\* byte for a, counting only bytes at addresses up to 65535; the byte of g
\* when no hunk has one
PatchedByte(g, hunks, a) ==
    LET covering == {i \in 1..Len(hunks) :
                        /\ hunks[i].pos <= a
                        /\ a < hunks[i].pos + Len(hunks[i].data)}
    IN  IF covering = {} THEN GridGet(g, a)
        ELSE LET i == CHOOSE c \in covering : \A o \in covering : o <= c
             IN  hunks[i].data[a - hunks[i].pos + 1]

\* the addresses the hunks reach when the address is or is not cut at 65535
Reached(hunks) ==
    UNION {{(hunks[i].pos + k) % 65536 : k \in 0..(Len(hunks[i].data) - 1)} :
              i \in 1..Len(hunks)}

Overflowing(h) == h.pos + Len(h.data) > 65536

\* C14: patch writes of a hunk (pos, data) with pos + len(data) > 65536 only
\* the first 65536 - pos bytes, to pos..65535; addresses below pos keep
\* their bytes (nothing wraps to address 0) and there is no error.
C14_PatchTruncates ==
    gstage = "roundtrip" =>
        \A a \in (DOMAIN before) \cup (DOMAIN patched_de)
                    \cup Reached(deserialized.hunks) \cup {0, 1, 2} :
            /\ a \in 0..65535
            /\ GridGet(patched_de, a) = PatchedByte(before, deserialized.hunks, a)

\* a hunk of three bytes at 65535 has written its first byte there and left
\* the bytes at addresses 0 and 1 alone
C14_Witness ==
    /\ gstage = "roundtrip"
    /\ before = PatternGrid
    /\ deserialized.hunks = <<[pos |-> 65535, data |-> <<2, 0, 2>>]>>
    /\ Overflowing(deserialized.hunks[1])
    /\ GridGet(patched_de, 65535) = 2
    /\ GridGet(patched_de, 0) = 255
    /\ GridGet(patched_de, 1) = 0

(***************************************************************************)
(* Properties of movement between registers and of page rotation, checked  *)
(* under Spec.                                                             *)
(***************************************************************************)
\* the last action was a Move requested with the player on a register
RegisterMove(st) ==
    st.trace.action = "Move" /\ st.trace.from_player.kind = "Register"

\* the register the last Move aimed at; -1 when there is none (Up from the
\* first register, Down from the last, Left, Right)
TargetRegister(st) ==
    LET r == st.trace.from_player.r
    IN  CASE st.trace.dir = "Up" -> IF r >= 1 THEN r - 1 ELSE -1
          [] st.trace.dir = "Down" -> IF r + 1 <= 2 THEN r + 1 ELSE -1
          [] OTHER -> -1

\* C15: a Move with the player on Register(r) aims at r-1 (Up) or r+1
\* (Down); when that register exists and its value has the player bit
\* clear the player is on it after the movement and player_page is the
\* effective value of the Page register, Page | 0x40 when the player is now
\* on the Page register; in every other case player and player_page are
\* unchanged.
C15_RegisterMovement ==
    RegisterMove(game) =>
        LET t == game.trace
            target == TargetRegister(game)
        IN  IF target # -1 /\ (t.trig_registers[target] \div 64) % 2 = 0
            THEN /\ t.moved_player = Register(target)
                 /\ t.moved_page = IF target = RegPage
                                   THEN BitOr(t.trig_registers[RegPage], 64)
                                   ELSE t.trig_registers[RegPage]
            ELSE /\ t.moved_player = t.from_player
                 /\ t.moved_page = t.from_page

\* the player went down from the Data register to the Page register, which
\* holds 2, and is on page 0x42
C15_Witness ==
    /\ RegisterMove(game)
    /\ game.trace.from_player = Register(RegData)
    /\ game.trace.from_page = 2
    /\ game.trace.moved_player = Register(RegPage)
    /\ game.trace.trig_registers[RegPage] = 2
    /\ game.trace.moved_page = 66

\* rotation is permitted by the rules in state st
RotationPermitted(st) ==
    \/ st.game_rules.rotate_page = "Always"
    \/ st.game_rules.rotate_page = "AfterPageInstruction"
       /\ st.page_instruction_executed

\* the distances 1..255 from the player's page at which a visited page lies
VisitedAhead(st) ==
    {i \in 1..255 : Bits256_get(st.visited_pages, (st.player_page + i) % 256)}

\* C16: a RotatePage made while rotation is permitted and the player is in
\* the grid sets player_page to (player_page + i) mod 256 for the smallest
\* i in 1..255 whose page has been visited, and leaves it alone when there
\* is no such page; the player's coordinates do not change.
C16_RotatePageSelection ==
    [][(/\ game'.trace.action = "RotatePage"
        /\ RotationPermitted(game)
        /\ game.player.kind = "Pos") =>
           /\ game'.player = game.player
           /\ \A i \in VisitedAhead(game) :
                 (\A j \in VisitedAhead(game) : i <= j) =>
                     game'.player_page = (game.player_page + i) % 256
           /\ VisitedAhead(game) = {} => game'.player_page = game.player_page
      ]_vars

\* a rotation has taken the player in the grid from page 2 to page 0x42, the
\* only other visited page
C16_Witness ==
    /\ game.trace.action = "RotatePage"
    /\ game.trace.from_player.kind = "Pos"
    /\ game.trace.from_page = 2
    /\ game.player_page = 66
    /\ game.player = game.trace.from_player
    /\ Bits256_get(game.visited_pages, 2)

\* C17: make_move(RotatePage) executes no instruction, also when the
\* player's page equals the CPU's Page register after the rotation; memory
\* does not change, and pc and registers change only when a trigger fires,
\* and then as the trigger's effect says.
C17_RotateNeverSteps ==
    [][game'.trace.action = "RotatePage" =>
           /\ ~game'.trace.stepped
           /\ game'.trace.executed = 0
           /\ AsTriggersLeft(game')
           /\ \A q \in DOMAIN game.pages :
                 Changed(game'.pages[q].memory, game.pages[q].memory) = {}
           /\ game'.trace.fired = -1 =>
                  game'.pc = game.pc /\ game'.registers = game.registers
           /\ game'.trace.fired # -1 =>
                  LET effect == game.pages[game'.trace.fired_page]
                                    .triggers[game'.trace.fired].effect
                  IN  /\ effect.kind = "SetPC" => game'.pc = effect.pc
                      /\ effect.kind # "SetPC" =>
                             game'.pc = game.pc /\ game'.registers = game.registers
                      /\ game'.registers[RegPage] = game.registers[RegPage]
      ]_vars

\* a RotatePage left the player on the CPU's page with an instruction under
\* the pc, and the instruction was not executed
C17_Witness ==
    /\ game.trace.action = "RotatePage"
    /\ TraceInSync(game.trace)
    /\ game.player_page = game.registers[RegPage]
    /\ read_instruction(game, game.pc, game.player_page).op # "None"
    /\ ~game.trace.stepped
    /\ game.pc = game.trace.trig_pc

\* the instruction an opcode byte stands for
OpName(byte) ==
    CASE byte = 106 -> "Jump"
      [] byte = 115 -> "Swap"
      [] byte = 99 -> "Compare"
      [] byte = 101 -> "JumpEqual"
      [] byte = 108 -> "JumpLess"
      [] byte = 103 -> "JumpGreater"
      [] byte = 97 -> "Add"
      [] byte = 112 -> "Page"
      [] OTHER -> "None"

\* the opcode byte under the pc when the trigger phase of the last action
\* ended, read on the player's page through the player overlay
ByteUnderPc(t) ==
    LET stored == GridGet(TraceMemory(t, t.trig_page), t.trig_pc)
    IN  IF t.trig_player = Pos(V2(t.trig_pc \div 256, t.trig_pc % 256))
        THEN BitOr(stored, 64) ELSE stored

\* the last action was a Move that left the player where it was
BlockedMove(t) ==
    /\ t.action = "Move"
    /\ t.moved_player = t.from_player
    /\ t.moved_page = t.from_page

\* C18: a Move that does not relocate the player (inaccessible target, grid
\* edge in Block mode, blocked register move) still makes the CPU step when
\* the player's page equals the effective Page register: the instruction
\* under the pc is fetched and, if there is one, executed, once.
C18_BlockedMoveSteps ==
    LET t == game.trace
    IN  (BlockedMove(t) /\ TraceInSync(t)) =>
            /\ t.stepped
            /\ t.fetch_pc = t.trig_pc
            /\ t.cpu_page = t.trig_page
            /\ t.instr.op = OpName(ByteUnderPc(t))
            /\ t.executed = IF OpName(ByteUnderPc(t)) = "None" THEN 0 ELSE 1

\* the player on the Data register was refused the Page register, which
\* holds 0x42, and the Page instruction under the pc was executed
C18_Witness ==
    /\ BlockedMove(game.trace)
    /\ game.trace.from_player = Register(RegData)
    /\ game.trace.dir = "Down"
    /\ game.trace.trig_registers[RegPage] = 66
    /\ game.trace.instr.op = "Page"
    /\ game.trace.executed = 1
    /\ game.registers[RegPage] = 2

(***************************************************************************)
(* Properties of Bits256, checked under SpecBits.                          *)
(***************************************************************************)
\* C19: in a new or cleared Bits256 get(j) is false for every j in 0..255;
\* set(i, b) makes get(i) = b and leaves get(j) as it was for every j # i,
\* so that setting a bit that is off to false leaves the set as it was.
C19_Bits256SetSemantics ==
    /\ [](bits_last.op \in {"new", "clear"} =>
              \A j \in 0..255 : ~Bits256_get(bits, j))
    /\ [][bits_last'.op = "set" =>
              /\ Bits256_get(bits', bits_last'.idx) = bits_last'.value
              /\ \A j \in (0..255) \ {bits_last'.idx} :
                    Bits256_get(bits', j) = Bits256_get(bits, j)
              /\ (~bits_last'.value /\ ~Bits256_get(bits, bits_last'.idx)) =>
                     bits' = bits
         ]_vars

\* bit 7 was on and has been set to false, while bits 0 and 255 are on
C19_Witness ==
    /\ bits_last = BitOp("set", 7, FALSE, TRUE)
    /\ ~Bits256_get(bits, 7)
    /\ Bits256_get(bits, 0)
    /\ Bits256_get(bits, 255)

(***************************************************************************)
(* Properties of the null page, checked under Spec.                        *)
(***************************************************************************)
\* page ids that are not in the page table of st
AbsentPages(st) == {0, 2, 7, 66, 255, st.player_page} \ DOMAIN st.pages

\* the addresses read: the pc, the player's cell, every address at which
\* some page stores a byte, and the ends of the address space
ProbeAddrs(st) ==
    {st.pc, 0, 1, 255, 256, 65535}
    \cup (IF st.player.kind = "Pos" THEN {joinu16(PosOf(st.player))} ELSE {})
    \cup UNION {DOMAIN st.pages[q].memory : q \in DOMAIN st.pages}

\* C20: a page id that is not in the page table reads as the null page:
\* every cell stores 0 (current_page for a player on such a page,
\* read_instruction for a CPU on it), read_instruction returns None at
\* every pc, a CPU step on such a page changes neither pc, registers,
\* player location nor any page, and the null page is never written.
C20_NullPageFallback ==
    /\ game.null_page = PageState_new
    /\ game.player_page \notin DOMAIN game.pages =>
           \A a \in ProbeAddrs(game) : GridGet(current_page(game).memory, a) = 0
    /\ \A q \in AbsentPages(game) :
           /\ page_or_null(game, q) = game.null_page
           /\ \A a \in ProbeAddrs(game) :
                 /\ GridGet(page_or_null(game, q).memory, a) = 0
                 /\ read_instruction(game, a, q) = InstrNone
    /\ (game.trace.stepped /\ game.trace.cpu_page \notin DOMAIN game.pages) =>
           /\ game.trace.instr = InstrNone
           /\ game.trace.executed = 0
           /\ AsTriggersLeft(game)
           /\ game.player = game.trace.trig_player
           /\ game.player_page = game.trace.trig_page

\* the CPU made a step on page 2, which does not exist, with the player in
\* the grid of that page, while page 0x42 holds an instruction at the pc's
\* address
C20_Witness ==
    /\ game.trace.stepped
    /\ game.trace.cpu_page = 2
    /\ 2 \notin DOMAIN game.pages
    /\ game.player.kind = "Pos"
    /\ game.player_page = 2
    /\ game.pc = game.trace.trig_pc
    /\ read_instruction(game, 4112, 66).op = "Add"
    /\ read_instruction(game, 4112, 2) = InstrNone

(***************************************************************************)
(* Helpers over the trace of the last make_move: the registers as step_cpu *)
(* read them, and whether the fetched instruction set the program counter. *)
(***************************************************************************)
TraceRegister(t, r) ==
    get_register_effective(t.trig_registers, r, t.trig_player, player_mask(game))

Jumped(t) ==
    \/ t.instr.op = "Jump"
    \/ t.instr.op = "JumpEqual" /\ TraceRegister(t, RegCompare) = 0
    \/ t.instr.op = "JumpGreater" /\ TraceRegister(t, RegCompare) = 1
    \/ t.instr.op = "JumpLess" /\ TraceRegister(t, RegCompare) > 1

(***************************************************************************)
(* C21: the program counter saturates.  After any sequence of actions pc   *)
(* lies in 0..0xFFFF, and a step that fetched at 0xFFFF an instruction     *)
(* other than None that did not jump leaves pc at 0xFFFF, not at 0.        *)
(***************************************************************************)
C21_PcSaturates ==
    /\ game.pc \in 0..U16Max
    /\ (/\ game.trace.stepped
        /\ game.trace.fetch_pc = U16Max
        /\ game.trace.instr.op # "None"
        /\ ~Jumped(game.trace))
       => game.pc = U16Max

\* an Add and a failing JumpEqual have both been executed at 0xFFFF
C21_Witness ==
    /\ game.trace.stepped
    /\ game.trace.fetch_pc = U16Max
    /\ game.trace.instr.op \in {"Add", "JumpEqual"}
    /\ ~Jumped(game.trace)
    /\ game.pc = U16Max
    /\ moves >= 2

(***************************************************************************)
(* C22: Swap relocates the player.  When Swap(addr) has executed on an     *)
(* existing page: a player who stood at addr on that page is on            *)
(* Register(Data); else a player who was on Register(Data) is at Pos(addr) *)
(* with player_page the CPU's page; else player and player_page are as     *)
(* before.  In both relocations the effective value at the player's new    *)
(* location equals the effective value at the old location before the      *)
(* swap.                                                                   *)
(***************************************************************************)
C22_SwapRelocates ==
    SwapExecuted(game) =>
        LET t == game.trace
            addr == t.instr.arg
            mask == player_mask(game)
            \* the state step_cpu was called in
            before_swap ==
                [game EXCEPT !.player = t.trig_player,
                             !.player_page = t.trig_page,
                             !.registers = t.trig_registers,
                             !.pages = [q \in DOMAIN game.pages |->
                                 [game.pages[q] EXCEPT !.memory = t.trig_memory[q]]]]
        IN  IF t.trig_page = t.cpu_page /\ t.trig_player = Pos(splitu16(addr))
            THEN /\ game.player = Register(RegData)
                 /\ game.player_page = t.trig_page
                 /\ get_register_effective(game.registers, RegData,
                                           game.player, mask)
                    = effective_value(before_swap, current_page(before_swap),
                                      splitu16(addr))
            ELSE IF t.trig_player = Register(RegData)
            THEN /\ game.player = Pos(splitu16(addr))
                 /\ game.player_page = t.cpu_page
                 /\ effective_value(game, current_page(game), splitu16(addr))
                    = get_register_effective(t.trig_registers, RegData,
                                             t.trig_player, mask)
            ELSE /\ game.player = t.trig_player
                 /\ game.player_page = t.trig_page

\* the player has been swapped onto Data and, with Data changed by an Add,
\* back onto the grid at (0,3), where the effective value is now 0x61
C22_Witness ==
    /\ SwapExecuted(game)
    /\ game.trace.trig_player = Register(RegData)
    /\ game.player = Pos(V2(0, 3))
    /\ effective_value(game, current_page(game), V2(0, 3)) = 97
    /\ moves = 3

(***************************************************************************)
(* C23: Add stores a clean sum.  After Add(v) has executed the stored Data *)
(* register equals (previously stored Data + v) mod 256, whether or not    *)
(* the player stands on the Data register.                                 *)
(***************************************************************************)
C23_AddStoresCleanSum ==
    (game.trace.stepped /\ game.trace.instr.op = "Add") =>
        game.registers[RegData] =
            (game.trace.trig_registers[RegData] + game.trace.instr.arg) % 256

(***************************************************************************)
(* C24 as stated: for every pc and page the instruction kind decoded at pc *)
(* is the same whether or not the player stands on the cell at pc.  The    *)
(* decoding without the player there is that of the same state with the    *)
(* player on a register.                                                   *)
(***************************************************************************)
C24_Original ==
    LET elsewhere == [game EXCEPT !.player = Register(RegData)]
    IN  \A q \in DOMAIN game.pages : \A a \in ProbeAddrs(game) :
            read_instruction(game, a, q).op = read_instruction(elsewhere, a, q).op

(***************************************************************************)
(* C24: the player's presence does not alter the execution of stored code. *)
(* For every pc and page, when the byte stored at pc is an opcode, the     *)
(* instruction kind decoded at pc is the same whether or not the player    *)
(* stands on that cell; a stored byte that is no opcode decodes, under the *)
(* player, as the byte with bit 0x40 set does.                             *)
(***************************************************************************)
C24_PresenceKeepsOpcodes ==
    LET elsewhere == [game EXCEPT !.player = Register(RegData)]
    IN  \A q \in DOMAIN game.pages : \A a \in ProbeAddrs(game) :
            LET stored == GridGet(game.pages[q].memory, a)
                here == read_instruction(game, a, q).op
            IN  /\ read_instruction(elsewhere, a, q).op = OpName(stored)
                /\ OpName(stored) # "None" => here = OpName(stored)
                /\ game.player = Pos(splitu16(a)) => here = OpName(BitOr(stored, 64))

\* the CPU has fetched the cell the player stands on, which stores 'a', and
\* executed Add
C24_Witness ==
    /\ game.trace.stepped
    /\ game.trace.trig_player = Pos(splitu16(game.trace.fetch_pc))
    /\ game.player = game.trace.trig_player
    /\ GridGet(game.pages[game.trace.cpu_page].memory, game.trace.fetch_pc) = 97
    /\ game.trace.instr.op = "Add"

(***************************************************************************)
(* C25: Compare encoding.  After Compare(v) has executed, the Compare      *)
(* register holds 0 if Data = v, 1 if Data > v and 0xFF if Data < v, for   *)
(* Data the effective value of the Data register (unsigned); the stored    *)
(* Data register is unchanged.                                             *)
(***************************************************************************)
C25_CompareEncoding ==
    (game.trace.stepped /\ game.trace.instr.op = "Compare") =>
        LET t == game.trace
            data == TraceRegister(t, RegData)
            v == t.instr.arg
        IN  /\ data = v => game.registers[RegCompare] = 0
            /\ data > v => game.registers[RegCompare] = 1
            /\ data < v => game.registers[RegCompare] = 255
            /\ game.registers[RegData] = t.trig_registers[RegData]

\* Compare(0x3F) with the player on the Data register, which stores 0 and
\* reads 0x40: the result is 1
C25_Witness ==
    /\ game.trace.stepped
    /\ game.trace.instr = Instr("Compare", 63)
    /\ game.trace.trig_player = Register(RegData)
    /\ game.trace.trig_registers[RegData] = 0
    /\ game.registers[RegCompare] = 1
    /\ game.registers[RegData] = 0

(***************************************************************************)
(* C26 as stated: Jump(addr) sets pc to addr; JumpEqual sets pc to addr    *)
(* iff the effective Compare value is 0, JumpGreater iff it is 1, JumpLess *)
(* iff it is greater than 1; when the condition fails pc is the fetch      *)
(* address plus 1.  No register and no memory cell changes.                *)
(***************************************************************************)
C26_Original ==
    LET t == game.trace
    IN  (t.stepped /\ t.instr.op \in {"Jump", "JumpEqual", "JumpGreater", "JumpLess"}) =>
            /\ game.pc = (IF Jumped(t) THEN t.instr.arg ELSE t.fetch_pc + 1)
            /\ game.registers = t.trig_registers
            /\ \A q \in DOMAIN game.pages :
                  Changed(game.pages[q].memory, t.trig_memory[q]) = {}

(***************************************************************************)
(* C26: jump conditions.  Jump(addr) sets pc to addr; JumpEqual sets pc to *)
(* addr iff the effective Compare value is 0, JumpGreater iff it is 1,     *)
(* JumpLess iff it is greater than 1; when the condition fails pc is the   *)
(* fetch address plus 1, or 0xFFFF when the fetch address is 0xFFFF.  No   *)
(* register and no memory cell changes.                                    *)
(***************************************************************************)
C26_JumpConditions ==
    LET t == game.trace
        cmp == TraceRegister(t, RegCompare)
        taken == CASE t.instr.op = "Jump" -> TRUE
                   [] t.instr.op = "JumpEqual" -> cmp = 0
                   [] t.instr.op = "JumpGreater" -> cmp = 1
                   [] t.instr.op = "JumpLess" -> cmp > 1
                   [] OTHER -> FALSE
    IN  (t.stepped /\ t.instr.op \in {"Jump", "JumpEqual", "JumpGreater", "JumpLess"}) =>
            /\ taken => game.pc = t.instr.arg
            /\ ~taken => game.pc = (IF t.fetch_pc = U16Max THEN U16Max
                                    ELSE t.fetch_pc + 1)
            /\ game.registers = t.trig_registers
            /\ \A q \in DOMAIN game.pages :
                  Changed(game.pages[q].memory, t.trig_memory[q]) = {}

\* with the player on the Compare register, which stores 1 and reads 0x41,
\* JumpGreater has failed and JumpLess has then jumped to 0x0110
C26_Witness ==
    /\ game.trace.stepped
    /\ game.trace.instr = Instr("JumpLess", 272)
    /\ game.trace.trig_player = Register(RegCompare)
    /\ game.trace.trig_registers[RegCompare] = 1
    /\ game.trace.fetch_pc = 3
    /\ game.pc = 272

(***************************************************************************)
(* C27 as stated: when the byte at pc decodes to None a CPU step leaves    *)
(* pc, registers, memory and the player location unchanged; for every      *)
(* other opcode pc is first advanced by exactly 1, one row down in the     *)
(* same column, before the instruction acts (seen in the pc that every     *)
(* instruction but a jump leaves behind).                                  *)
(***************************************************************************)
C27_Original ==
    LET t == game.trace
        p == splitu16(t.fetch_pc)
    IN  /\ (t.stepped /\ t.instr.op = "None") =>
              /\ game.pc = t.trig_pc
              /\ game.registers = t.trig_registers
              /\ \A q \in DOMAIN game.pages :
                    Changed(game.pages[q].memory, t.trig_memory[q]) = {}
              /\ game.player = t.trig_player
              /\ game.player_page = t.trig_page
        /\ (t.stepped /\ t.instr.op # "None" /\ ~Jumped(t)) =>
              /\ game.pc = t.fetch_pc + 1
              /\ splitu16(game.pc) = V2(p.x, p.y + 1)

(***************************************************************************)
(* C27: None is a complete no-op and every other opcode advances.  When    *)
(* the byte at pc decodes to None a CPU step leaves pc, registers, memory  *)
(* and the player location unchanged; for every other opcode pc is first   *)
(* advanced by 1 in the 16-bit address, whatever the number of operand     *)
(* bytes: one row down in the same column, from row 255 to row 0 of the    *)
(* next column, and from 0xFFFF nowhere.                                   *)
(***************************************************************************)
C27_NoneIsNoOp ==
    LET t == game.trace
        p == splitu16(t.fetch_pc)
    IN  /\ (t.stepped /\ t.instr.op = "None") =>
              /\ game.pc = t.trig_pc
              /\ t.fetch_pc = t.trig_pc
              /\ game.registers = t.trig_registers
              /\ \A q \in DOMAIN game.pages :
                    Changed(game.pages[q].memory, t.trig_memory[q]) = {}
              /\ game.player = t.trig_player
              /\ game.player_page = t.trig_page
        /\ (t.stepped /\ t.instr.op # "None" /\ ~Jumped(t)) =>
              /\ t.fetch_pc < U16Max => game.pc = t.fetch_pc + 1
              /\ splitu16(game.pc) =
                    (IF p.y < 255 THEN V2(p.x, p.y + 1)
                     ELSE IF p.x < 255 THEN V2(p.x + 1, 0)
                     ELSE p)

\* Compare 1 fetched at 0x01FF, the last row of column 1, has left the pc at
\* 0x0200, the first row of column 2
C27_Witness ==
    /\ game.trace.stepped
    /\ game.trace.instr = Instr("Compare", 1)
    /\ game.trace.fetch_pc = joinu8(1, 255)
    /\ game.pc = joinu8(2, 0)

(***************************************************************************)
(* C28 as stated: with the page_instruction rule enabled an executed       *)
(* Page(v) sets the stored Page register and player_page to v, marks v     *)
(* visited and records that a Page instruction has executed; with the rule *)
(* disabled it changes nothing except advancing pc by 1.                   *)
(***************************************************************************)
C28_Original ==
    LET t == game.trace
        v == t.instr.arg
    IN  (t.stepped /\ t.instr.op = "Page") =>
            IF game.game_rules.page_instruction
            THEN /\ game.registers[RegPage] = v
                 /\ game.player_page = v
                 /\ Bits256_get(game.visited_pages, v)
                 /\ game.page_instruction_executed
            ELSE /\ game.pc = t.fetch_pc + 1
                 /\ game.registers = t.trig_registers
                 /\ game.player = t.trig_player
                 /\ game.player_page = t.trig_page
                 /\ ~game.page_instruction_executed
                 /\ \A q \in DOMAIN game.pages :
                       Changed(game.pages[q].memory, t.trig_memory[q]) = {}

(***************************************************************************)
(* C28: the Page instruction.  With the page_instruction rule enabled an   *)
(* executed Page(v) sets the stored Page register and player_page to v,    *)
(* marks v visited and records that a Page instruction has executed; with  *)
(* the rule disabled it changes nothing except the pc, which is advanced   *)
(* by 1 and stays 0xFFFF when it is 0xFFFF.                                *)
(***************************************************************************)
C28_PageInstruction ==
    LET t == game.trace
        v == t.instr.arg
    IN  (t.stepped /\ t.instr.op = "Page") =>
            IF game.game_rules.page_instruction
            THEN /\ game.registers[RegPage] = v
                 /\ game.player_page = v
                 /\ Bits256_get(game.visited_pages, v)
                 /\ game.page_instruction_executed
            ELSE /\ game.pc = (IF t.fetch_pc = U16Max THEN U16Max
                               ELSE t.fetch_pc + 1)
                 /\ game.registers = t.trig_registers
                 /\ game.player = t.trig_player
                 /\ game.player_page = t.trig_page
                 /\ ~game.page_instruction_executed
                 /\ \A q \in DOMAIN game.pages :
                       Changed(game.pages[q].memory, t.trig_memory[q]) = {}

\* Page(2) has executed on page 0x42 with the rule enabled
C28_Witness ==
    /\ game.trace.stepped
    /\ game.trace.instr = Instr("Page", 2)
    /\ game.game_rules.page_instruction
    /\ game.trace.trig_registers[RegPage] = 66
    /\ game.trace.trig_page = 66
    /\ game.registers[RegPage] = 2
    /\ game.player_page = 2
    /\ Bits256_get(game.visited_pages, 2)
    /\ game.page_instruction_executed

(***************************************************************************)
(* C29: operands past the grid edge read as zero.  The operand of an       *)
(* instruction decoded at (x, y) is taken from the cells (x+1, y) and, for *)
(* a 16-bit operand, (x+2, y), high byte first; a cell whose column would  *)
(* be 256 or more counts as 0, so an opcode in column 255 has operand 0    *)
(* and a 16-bit operand that starts in column 255 has low byte 0.  No cell *)
(* of another row and no cell outside the grid enters the operand.         *)
(***************************************************************************)
C29_OperandsAtEdge ==
    \A q \in DOMAIN game.pages : \A a \in ProbeAddrs(game) :
        LET p == splitu16(a)
            memory == game.pages[q].memory
            \* the byte read k cells to the right of the opcode
            right(k) ==
                IF p.x + k >= 256 THEN 0
                ELSE LET stored == GridGet(memory, a + 256 * k)
                     IN  IF game.player = Pos(V2(p.x + k, p.y))
                         THEN BitOr(stored, 64) ELSE stored
            i == read_instruction(game, a, q)
        IN  /\ i.op \in {"Compare", "Add", "Page"} => i.arg = right(1)
            /\ i.op \in {"Jump", "Swap", "JumpEqual", "JumpLess", "JumpGreater"} =>
                  i.arg = right(1) * 256 + right(2)
            /\ i.op = "None" => i.arg = 0
            /\ p.x = 255 => i.arg = 0
            /\ p.x = 254 => i.arg % 256 = 0

\* Jump fetched at (254,5) with 0x12 at (255,5) and 7 at (0,5) and (0,6)
\* has been executed as Jump(0x1200), and Compare at (255,7), with 9 at
\* (0,7), (0,8) and (1,7), decodes as Compare(0)
C29_Witness ==
    /\ game.trace.stepped
    /\ game.trace.fetch_pc = joinu8(254, 5)
    /\ game.trace.instr = Instr("Jump", 18 * 256)
    /\ game.pc = 18 * 256
    /\ GridGet(game.pages[66].memory, joinu8(255, 5)) = 18
    /\ GridGet(game.pages[66].memory, joinu8(0, 5)) = 7
    /\ GridGet(game.pages[66].memory, joinu8(0, 6)) = 7
    /\ read_instruction(game, joinu8(255, 7), 66) = Instr("Compare", 0)
    /\ GridGet(game.pages[66].memory, joinu8(0, 7)) = 9
    /\ GridGet(game.pages[66].memory, joinu8(0, 8)) = 9

(***************************************************************************)
(* C30: RotatePage guards.  A RotatePage leaves player_page unchanged when *)
(* the rotation rule is Never, when it is AfterPageInstruction and no Page *)
(* instruction has executed with page switching enabled, and when the      *)
(* player is on a register.  The record that a Page instruction has        *)
(* executed is unset at the start, is set by an executed Page instruction  *)
(* with page switching enabled and by nothing else, and is never unset, so *)
(* that under AfterPageInstruction a rotation from the grid moves to       *)
(* another visited page from the first such instruction on.                *)
(***************************************************************************)
C30_RotatePageGuards ==
    /\ [](moves = 0 => ~game.page_instruction_executed)
    /\ [][/\ (/\ game'.trace.action = "RotatePage"
              /\ \/ game.game_rules.rotate_page = "Never"
                 \/ /\ game.game_rules.rotate_page = "AfterPageInstruction"
                    /\ ~game.page_instruction_executed
                 \/ game.player.kind = "Register")
             => game'.player_page = game.player_page
          /\ game.page_instruction_executed => game'.page_instruction_executed
          /\ (~game.page_instruction_executed /\ game'.page_instruction_executed)
             <=> /\ ~game.page_instruction_executed
                 /\ game'.trace.stepped
                 /\ game'.trace.instr.op = "Page"
                 /\ game.game_rules.page_instruction
          /\ (/\ game'.trace.action = "RotatePage"
              /\ game.game_rules.rotate_page = "AfterPageInstruction"
              /\ game.page_instruction_executed
              /\ game.player.kind = "Pos"
              /\ VisitedAhead(game) # {})
             => game'.player_page # game.player_page
         ]_vars

\* a RotatePage with the player in the grid of page 2 and page 0x42 visited,
\* under AfterPageInstruction and before any Page instruction, has left
\* player_page as it was
C30_Witness ==
    /\ game.trace.action = "RotatePage"
    /\ game.trace.from_player.kind = "Pos"
    /\ game.game_rules.rotate_page = "AfterPageInstruction"
    /\ ~game.page_instruction_executed
    /\ game.game_rules.page_instruction
    /\ VisitedAhead(game) # {}
    /\ game.trace.from_page = 2
    /\ game.player_page = 2

C32_TriggerTableScan ==
    moves = 0 =>
        \A q \in DOMAIN game.pages :
            LET memory == game.pages[q].memory
                px(r) == GridGet(memory, joinu8(0, r))
                py(r) == GridGet(memory, joinu8(1, r))
                tx(r) == GridGet(memory, joinu8(2, r))
                ty(r) == GridGet(memory, joinu8(3, r))
                ends == {r \in 36..255 : px(r) = 0 /\ py(r) = 0}
                records == {r \in 36..255 : \A e \in ends : r < e}
                keys == {joinu8(px(r), py(r)) : r \in records}
                last(k) == CHOOSE r \in records :
                              /\ joinu8(px(r), py(r)) = k
                              /\ \A r2 \in records :
                                    joinu8(px(r2), py(r2)) = k => r2 <= r
            IN  game.pages[q].triggers =
                    [k \in keys |->
                        Trigger(V2(px(last(k)), py(last(k))),
                                SetPC(joinu8(tx(last(k)), ty(last(k)))), TRUE)]

(***************************************************************************)
(* C33: the instruction range.  instruction_range(pc) returns nothing iff  *)
(* the byte at pc decodes to None on the player's page; otherwise it       *)
(* returns (top, bottom) with top <= row(pc) <= bottom, every row of       *)
(* top..bottom in the column of pc decoding to an instruction, and the     *)
(* rows top-1 and bottom+1, where they lie in 0..255, decoding to None.    *)
(***************************************************************************)
C33_InstructionRange ==
    \A a \in ProbeAddrs(game) :
        LET r == instruction_range(game, a)
            x == splitu16(a).x
            row == splitu16(a).y
            decoded(y) == read_instruction(game, joinu8(x, y), game.player_page).op
        IN  /\ r.none <=> decoded(row) = "None"
            /\ ~r.none =>
                  /\ 0 <= r.top /\ r.top <= row /\ row <= r.bottom /\ r.bottom <= 255
                  /\ \A y \in r.top..r.bottom : decoded(y) # "None"
                  /\ r.top > 0 => decoded(r.top - 1) = "None"
                  /\ r.bottom < 255 => decoded(r.bottom + 1) = "None"

\* with the pc on the second of the three instructions in column 0, above
\* the cell of the player, the range is rows 0..2; at 0xFFFF it is row 255
C33_Witness ==
    /\ game.pc = 1
    /\ game.trace.stepped
    /\ instruction_range(game, game.pc) = [none |-> FALSE, top |-> 0, bottom |-> 2]
    /\ instruction_range(game, 0) = instruction_range(game, 2)
    /\ instruction_range(game, 3).none
    /\ game.player_page \in DOMAIN game.pages
    /\ GridGet(game.pages[game.player_page].memory, 3) = 0

(***************************************************************************)
(* C34 as stated: every hunk of diff(A, B) has a length between 1 and 256  *)
(* bytes.                                                                  *)
(***************************************************************************)
C34_Original ==
    \A h \in 1..Len(the_diff) :
        Len(the_diff[h].data) >= 1 /\ Len(the_diff[h].data) <= 256

(***************************************************************************)
(* C34: the hunk length bound.  Every hunk of diff(A, B) has at least 1    *)
(* byte, ends at or before address 0xFFFF, and has at most 4*d - 3 bytes   *)
(* for d the number of differing addresses it covers; 256 is no bound.     *)
(***************************************************************************)
C34_HunkLength ==
    \A h \in 1..Len(the_diff) :
        LET pos == the_diff[h].pos
            len == Len(the_diff[h].data)
            d == Cardinality({a \in Differing(before, after) :
                                 pos <= a /\ a < pos + len})
        IN  /\ len >= 1
            /\ pos + len <= U16Max + 1
            /\ len <= 4 * d - 3

\* diff has produced a hunk of more than 256 bytes: 66 differing bytes that
\* lie 4 addresses apart are one hunk of at least 261 bytes
C34_Witness ==
    /\ gstage = "diffed"
    /\ \E h \in 1..Len(the_diff) :
          /\ Len(the_diff[h].data) >= 261
          /\ Cardinality({a \in Differing(before, after) :
                             /\ the_diff[h].pos <= a
                             /\ a < the_diff[h].pos + Len(the_diff[h].data)}) <= 68

(***************************************************************************)
(* C35: the hunk merge rule.  The hunks of diff(A, B) have strictly        *)
(* increasing, non-overlapping address ranges; each begins and ends at a   *)
(* differing address and carries the bytes of the after-grid; every        *)
(* differing address lies in a hunk; and a differing address i is in the   *)
(* hunk of the differing address before it iff at most 3 unchanged bytes   *)
(* lie between the two (i - (hunk start + hunk length) <= 3 when i is      *)
(* visited), otherwise i is the start of a new hunk.                       *)
(***************************************************************************)
C35_HunkMergeRule ==
    LET D == Differing(before, after)
        end(h) == the_diff[h].pos + Len(the_diff[h].data)
        In(a, h) == the_diff[h].pos <= a /\ a < end(h)
    IN  /\ \A h \in 1..Len(the_diff) :
              /\ the_diff[h].pos \in D
              /\ (end(h) - 1) \in D
              /\ \A k \in 1..Len(the_diff[h].data) :
                    the_diff[h].data[k] = GridGet(after, the_diff[h].pos + k - 1)
              /\ h < Len(the_diff) => end(h) < the_diff[h + 1].pos
        /\ gstage \notin {"start", "self"} =>
              /\ \A a \in D : \E h \in 1..Len(the_diff) : In(a, h)
              /\ \A p \in D, h \in 1..Len(the_diff) :
                    In(p, h) =>
                       LET near == {i \in (p + 1)..(p + 4) : i \in D}
                       IN  /\ \A i \in near : In(i, h)
                           /\ near = {} =>
                                 /\ end(h) = p + 1
                                 /\ (\E i \in D : i > p) =>
                                       /\ h < Len(the_diff)
                                       /\ the_diff[h + 1].pos \in D
                                       /\ \A m \in (p + 5)..(p + 8) :
                                             m \in D => the_diff[h + 1].pos <= m

\* diff has visited a differing address exactly 3 unchanged bytes after the
\* last one and merged it, and one 4 unchanged bytes after the last one and
\* started a new hunk there
C35_Witness ==
    LET D == Differing(before, after)
        In(a, h) == the_diff[h].pos <= a /\ a < the_diff[h].pos + Len(the_diff[h].data)
    IN  /\ gstage = "diffed"
        /\ \E p \in D, h \in 1..Len(the_diff) :
              /\ (p + 4) \in D /\ {p + 1, p + 2, p + 3} \cap D = {}
              /\ In(p, h) /\ In(p + 4, h)
        /\ \E p \in D, h \in 1..(Len(the_diff) - 1) :
              /\ (p + 5) \in D /\ {p + 1, p + 2, p + 3, p + 4} \cap D = {}
              /\ In(p, h) /\ the_diff[h + 1].pos = p + 5

(***************************************************************************)
(* C36: the player location stays well-formed.  After construction and     *)
(* after any sequence of make_move actions, under every wrap mode, the     *)
(* player is either Pos(x, y) with 0 <= x, y <= 255 or Register(i) with i  *)
(* less than the number of registers, which is 3.                          *)
(***************************************************************************)
C36_PlayerWellFormed ==
    /\ RegisterCount(game) = 3
    /\ \/ /\ game.player.kind = "Pos"
          /\ game.player.x \in 0..GRID_MAX
          /\ game.player.y \in 0..GRID_MAX
          /\ game.player = Pos(PosOf(game.player))
       \/ /\ game.player.kind = "Register"
          /\ game.player.r \in 0..(RegisterCount(game) - 1)
          /\ game.player = Register(game.player.r)

\* the player stands on the last register and a Move(Down) has kept it
\* there, after an earlier move that swapped it off the grid
C36_Witness ==
    /\ moves >= 2
    /\ game.trace.action = "Move"
    /\ game.trace.dir = "Down"
    /\ game.trace.from_player = Register(RegCompare)
    /\ game.player = Register(RegCompare)

(***************************************************************************)
(* C37: visited-page bookkeeping.  After construction and after every      *)
(* make_move the player's page is in the visited-page set; no make_move    *)
(* takes a page out of the set; and a RotatePage leaves the player on a    *)
(* page that was in the set before the action.                             *)
(***************************************************************************)
C37_VisitedPages ==
    /\ [](Bits256_get(game.visited_pages, game.player_page))
    /\ [][/\ \/ game'.visited_pages = game.visited_pages
             \/ \A q \in 0..255 :
                   Bits256_get(game.visited_pages, q) => Bits256_get(game'.visited_pages, q)
          /\ game'.trace.action = "RotatePage" =>
                /\ Bits256_get(game.visited_pages, game'.player_page)
                /\ game'.visited_pages = game.visited_pages]_vars

\* a RotatePage has taken the player from page 2 to page 0x42, which the
\* player had visited, and both pages are in the set
C37_Witness ==
    /\ game.trace.action = "RotatePage"
    /\ game.trace.from_page = 2
    /\ game.player_page = DEFAULT_PAGE
    /\ Bits256_get(game.visited_pages, 2)
    /\ Bits256_get(game.visited_pages, DEFAULT_PAGE)
    /\ \A q \in 0..255 : Bits256_get(game.visited_pages, q) => q \in {2, DEFAULT_PAGE}

(***************************************************************************)
(* C38: the memory frame.  The stored bytes of the pages change only       *)
(* through an executed Swap: the move and the triggers of a make_move      *)
(* write no page, a make_move in which no Swap executes on an existing     *)
(* page (a RotatePage, a move with the pages out of sync, another          *)
(* instruction, a trigger) leaves the stored bytes of every page as they   *)
(* were, and an executed Swap writes the one cell it names, on the CPU's   *)
(* page, with the stored Data value.                                       *)
(***************************************************************************)
C38_MemoryFrame ==
    [][LET t == game'.trace
           swapped == /\ t.stepped
                      /\ t.instr.op = "Swap"
                      /\ t.cpu_page \in DOMAIN game.pages
       IN  /\ DOMAIN game'.pages = DOMAIN game.pages
           /\ t.trig_memory = MemoryOf(game)
           /\ ~swapped => MemoryOf(game') = MemoryOf(game)
           /\ swapped =>
                 MemoryOf(game') =
                     [q \in DOMAIN game.pages |->
                         IF q = t.cpu_page
                         THEN GridSet(game.pages[q].memory, t.instr.arg,
                                      t.trig_registers[RegData])
                         ELSE game.pages[q].memory]]_vars

\* the player has stepped to another cell of the grid and the same make_move
\* has executed a Swap that changed a stored byte; the cell the player
\* stands on stores no player bit
C38_Witness ==
    /\ moves >= 2
    /\ game.trace.stepped
    /\ game.trace.instr.op = "Swap"
    /\ MemoryOf(game) # game.trace.trig_memory
    /\ game.player.kind = "Pos"
    /\ game.trace.from_player.kind = "Pos"
    /\ game.player # game.trace.from_player
    /\ GridGet(current_page(game).memory, joinu16(PosOf(game.player))) = 0

(***************************************************************************)
(* C39: trigger before instruction, in the same action.  When a Move lands *)
(* the player on an active SetPC(a) trigger and the player's page equals   *)
(* the CPU's effective Page register, the CPU steps in that make_move, the *)
(* instruction it executes is the one decoded at a, and it runs on the     *)
(* registers the trigger left (Data 0 and Compare 0xFF under the reset     *)
(* rule, the old values otherwise); when the byte at a decodes to None, pc *)
(* is a after the action.                                                  *)
(***************************************************************************)
C39_TriggerThenInstruction ==
    [][LET t == game'.trace
           landed == [game EXCEPT !.player = t.moved_player,
                                  !.player_page = t.moved_page]
           R0 == IF game.game_rules.reset_registers_on_trigger
                 THEN [game.registers EXCEPT ![RegData] = 0, ![RegCompare] = 255]
                 ELSE game.registers
       IN  (/\ t.action = "Move"
            /\ t.moved_player.kind = "Pos"
            /\ t.moved_page \in DOMAIN game.pages
            /\ joinu16(PosOf(t.moved_player)) \in DOMAIN game.pages[t.moved_page].triggers
            /\ is_active(game.pages[t.moved_page].triggers[joinu16(PosOf(t.moved_player))])
            /\ game.pages[t.moved_page].triggers[joinu16(PosOf(t.moved_player))].effect.kind
                  = "SetPC"
            /\ t.moved_page = game.registers[RegPage])
           => LET a == game.pages[t.moved_page].triggers[
                           joinu16(PosOf(t.moved_player))].effect.pc
                  i == read_instruction(landed, a, t.moved_page)
                  R1 == game'.registers
              IN  /\ t.fired = joinu16(PosOf(t.moved_player))
                  /\ t.stepped
                  /\ t.fetch_pc = a
                  /\ t.instr = i
                  /\ t.trig_registers = R0
                  /\ i.op = "None" => game'.pc = a /\ R1 = R0
                  /\ i.op = "Compare" =>
                        R1 = [R0 EXCEPT ![RegCompare] =
                                 IF R0[RegData] > i.arg THEN 1
                                 ELSE IF R0[RegData] < i.arg THEN 255 ELSE 0]
                  /\ i.op = "Add" =>
                        R1 = [R0 EXCEPT ![RegData] = (R0[RegData] + i.arg) % 256]
                  /\ i.op = "Jump" => game'.pc = i.arg /\ R1 = R0
                  /\ i.op = "JumpEqual" =>
                        /\ (game'.pc = i.arg) <=> (R0[RegCompare] = 0 \/ i.arg = pc_checked_add(a))
                        /\ R1 = R0
                  /\ i.op = "Page" =>
                        R1 = IF game.game_rules.page_instruction
                             THEN [R0 EXCEPT ![RegPage] = i.arg] ELSE R0]_vars

\* under the reset rule an Add has made Data 5, then a Move has landed on
\* the trigger to 0x0003 and the Compare(3) there has run on Data 0: Compare
\* is 0xFF, where the old Data would have given 1
C39_Witness ==
    /\ game.game_rules.reset_registers_on_trigger
    /\ moves = 2
    /\ game.trace.action = "Move"
    /\ game.trace.fired = joinu8(2, 1)
    /\ game.trace.stepped
    /\ game.trace.fetch_pc = 3
    /\ game.trace.instr = Instr("Compare", 3)
    /\ game.trace.trig_registers[RegData] = 0
    /\ game.registers[RegCompare] = 255
    /\ game.pc = 4

(***************************************************************************)
(* C40: the player overlay is confined to the player's own page.           *)
(* effective_value(page, p) carries the player mask only when page is the  *)
(* player's active page and the player stands at p; on every other page it *)
(* is the stored byte, also at the player's coordinates, and               *)
(* read_instruction on another page is the same with and without the       *)
(* player on the grid.                                                     *)
(***************************************************************************)
C40_OverlayConfined ==
    \A q \in DOMAIN game.pages :
        LET page == game.pages[q]
            positions == ProbePositions(page)
                         \cup (IF game.player.kind = "Pos"
                               THEN {PosOf(game.player)} ELSE {})
        IN  /\ \A p \in positions :
                  effective_value(game, page, p) =
                      IF q = game.player_page /\ game.player = Pos(p)
                      THEN BitOr(GridGet(page.memory, joinu16(p)), player_mask(game))
                      ELSE GridGet(page.memory, joinu16(p))
            /\ q # game.player_page =>
                  \A p \in positions :
                      read_instruction(game, joinu16(p), q) =
                          read_instruction([game EXCEPT !.player = Register(RegData)],
                                           joinu16(p), q)

=============================================================================
